---- MODULE Spec2Model ----
(***************************************************************************)
(* A state-machine model of the simulation core of the roguelike           *)
(* "eyes adjust to the dark": entity store, combat, AI state machine,      *)
(* spells, turn scheduler and dungeon generator.                           *)
(*                                                                         *)
(* Encoding of the Rust data:                                              *)
(*   Option<T>      None == <<>>, Some(v) == <<v>>                         *)
(*   Ai             the sequence of the num_turns of its Confused          *)
(*                  wrappers, outermost first; Basic == <<>> and           *)
(*                  Confused{previous_ai: p, num_turns: n} == <<n>> \o p   *)
(*   objects        Vec<Object>, a sequence whose index i+1 holds the      *)
(*                  object with Rust index i (PLAYER is Rust index 0)      *)
(*   map            map[x][y], x in 0..MAP_WIDTH-1, y in 0..MAP_HEIGHT-1   *)
(* Three fields of an object are history fields that the program does not  *)
(* hold: deaths (how often its death callback ran), since (AI turns it     *)
(* took since the last confuse cast on it, -1 before any) and wrapped      *)
(* (the Option<Ai> that cast took).                                        *)
(***************************************************************************)
EXTENDS Integers, Sequences, FiniteSets, TLC

VARIABLES
    objects,                   \* Vec<Object>: every object of the level
    inventory,                 \* game.inventory: Vec<Object>
    map,                       \* game.map: the tile grid
    fov,                       \* tcod.fov: tiles in the player's field of view
    previous_player_position,  \* main's previous_player_position
    pc,                        \* position in main's loop or in a harness
    player_action,             \* result of the last handle_keys
    id,                        \* loop variable of the AI phase (Rust index)
    rooms,                     \* make_map's accepted rooms
    attempt,                   \* make_map's loop counter over MAX_ROOMS
    dungeon_level,             \* game.dungeon_level, the level make_map is given
    last                       \* the operation the last step performed

vars == <<objects, inventory, map, fov, previous_player_position, pc,
          player_action, id, rooms, attempt, dungeon_level, last>>

-----------------------------------------------------------------------------
(* Bounds of the model (the program's values are larger).                  *)

MAP_WIDTH == 6
MAP_HEIGHT == 5
ROOM_MIN_SIZE == 2
ROOM_MAX_SIZE == 3
MAX_ROOMS == 3
TORCH_RADIUS == 2
CONFUSE_NUM_TURNS == 2
CONFUSE_RANGE == 2
LIGHTNING_RANGE == 1
LIGHTNING_DAMAGE == 20
FIREBALL_RADIUS == 1
FIREBALL_DAMAGE == 12

PLAYER == 0

(* bounds of the combat harness: the largest power and defense, the
   largest hit points and the largest amount of damage it draws *)
MaxStat == 5
MaxHp == 2
MaxDamage == 2

(* the capacity of the inventory and the hit points a potion heals *)
MaxInventory == 3
HEAL_AMOUNT == 4

(* the deepest level and the longest table from_dungeon_level is called
   with *)
MaxLevel == 6
MaxTable == 3

(* the experience a level costs, the experience and the level the player
   starts the level-up with, and the number of keys without a choice *)
LEVEL_UP_BASE == 70
LEVEL_UP_FACTOR == 30
MaxXp == 130
MaxPlayerLevel == 2
MaxPrompts == 2

(* the radius of the player's FOV on a lit tile and its cap in the dark *)
TORCH_RADIUS_IN_LIT_AREA == 1
TORCH_RADIUS_IN_DARK_AREA == 3

(* the deepest dungeon level a room is populated at *)
MaxDepth == 8

-----------------------------------------------------------------------------
(* Option and Ai.                                                          *)

None == <<>>
Some(v) == <<v>>
is_some(o) == o # <<>>
unwrap(o) == o[1]

Basic == <<>>
Confused(previous_ai, num_turns) == <<num_turns>> \o previous_ai
IsConfused(ai) == Len(ai) > 0
num_turns_of(ai) == ai[1]
previous_ai_of(ai) == Tail(ai)

(* objects[i] of the Rust code *)
Obj(objs, i) == objs[i + 1]
Ids(objs) == 0 .. (Len(objs) - 1)

-----------------------------------------------------------------------------
(* Objects.                                                                *)

(* Object::new: not alive, no components *)
Object_new(x, y, char, name, blocks) ==
    [x |-> x, y |-> y, char |-> char, name |-> <<name>>, blocks |-> blocks,
     alive |-> FALSE, fighter |-> None, ai |-> None, item |-> None,
     equipment |-> None, level |-> 1, emitter |-> None, fov_radius |-> 0,
     deaths |-> 0, since |-> -1, wrapped |-> None, uid |-> 0]

pos(o) == <<o.x, o.y>>
set_pos(o, x, y) == [o EXCEPT !.x = x, !.y = y]

(* squared Euclidean distance: distance_to and distance compare
   sqrt(dx^2 + dy^2) with a non-negative bound, which is the comparison of
   the squares *)
Dist2(x1, y1, x2, y2) == (x2 - x1) * (x2 - x1) + (y2 - y1) * (y2 - y1)
distance_to2(self, other) == Dist2(self.x, self.y, other.x, other.y)
distance2(self, x, y) == Dist2(self.x, self.y, x, y)

-----------------------------------------------------------------------------
(* Combat and death.                                                       *)

(* player_death: only the display identity changes *)
player_death(player) == [player EXCEPT !.char = "%"]

(* monster_death: the corpse does not block, cannot be attacked and does
   not move *)
monster_death_keeps_fighter(monster) ==
    [monster EXCEPT !.char = "%", !.blocks = FALSE, !.ai = None,
                    !.name = <<"remains of">> \o @]

monster_death_keeps_blocking(monster) ==
    [monster EXCEPT !.char = "%", !.fighter = None, !.ai = None,
                    !.name = <<"remains of">> \o @]

monster_death(monster) ==
    [monster EXCEPT !.char = "%", !.blocks = FALSE, !.fighter = None,
                    !.ai = None, !.name = <<"remains of">> \o @]

(* DeathCallback::callback; counts the run in the history field deaths *)
callback(on_death, object) ==
    LET counted == [object EXCEPT !.deaths = @ + 1]
    IN  IF on_death = "Player" THEN player_death(counted)
        ELSE monster_death(counted)

(* Object::take_damage: the object after the call *)
take_damage_unguarded(self, damage) ==
    LET hurt == IF is_some(self.fighter)
                THEN [self EXCEPT !.fighter[1].hp = @ - damage]
                ELSE self
    IN  IF is_some(hurt.fighter) /\ unwrap(hurt.fighter).hp <= 0
        THEN callback(unwrap(hurt.fighter).on_death,
                      [hurt EXCEPT !.alive = FALSE])
        ELSE hurt

take_damage(self, damage) ==
    LET hurt == IF is_some(self.fighter) /\ damage > 0
                THEN [self EXCEPT !.fighter[1].hp = @ - damage]
                ELSE self
    IN  IF is_some(hurt.fighter) /\ unwrap(hurt.fighter).hp <= 0
        THEN callback(unwrap(hurt.fighter).on_death,
                      [hurt EXCEPT !.alive = FALSE])
        ELSE hurt

(* the Option<i32> the callers of take_damage receive: the XP reward of
   the object when the call ran its death callback *)
take_damage_xp(self, damage) ==
    IF take_damage(self, damage).deaths > self.deaths
    THEN Some(unwrap(self.fighter).xp)
    ELSE None

(* the damage formula of Object::attack *)
attack_damage_swapped(self, target) ==
    (IF is_some(target.fighter) THEN unwrap(target.fighter).base_defense ELSE 0)
    - (IF is_some(self.fighter) THEN unwrap(self.fighter).base_power ELSE 0)

attack_damage(self, target) ==
    (IF is_some(self.fighter) THEN unwrap(self.fighter).base_power ELSE 0)
    - (IF is_some(target.fighter) THEN unwrap(target.fighter).base_defense ELSE 0)

(* Object::attack: the target after the attack and the message printed *)
attack(self, target) ==
    LET damage == attack_damage(self, target)
    IN  IF damage > 0
        THEN [target |-> take_damage(target, damage),
              msg |-> "attacks for hit points"]
        ELSE [target |-> target, msg |-> "attacks but it has no effect"]

-----------------------------------------------------------------------------
(* Tiles, blocking and movement.                                           *)

Tile_empty == [blocked |-> FALSE, block_sight |-> FALSE, explored |-> FALSE,
               lit |-> FALSE]
Tile_wall == [blocked |-> TRUE, block_sight |-> TRUE, explored |-> FALSE,
              lit |-> FALSE]

Xs == 0 .. (MAP_WIDTH - 1)
Ys == 0 .. (MAP_HEIGHT - 1)
(* is_blocked: the map tile, then any blocking object *)
is_blocked(x, y, m, objs) ==
    \/ m[x][y].blocked
    \/ \E i \in Ids(objs) : Obj(objs, i).blocks /\ pos(Obj(objs, i)) = <<x, y>>

(* move_by: move by the given amount, if the destination is not blocked *)
move_by(i, dx, dy, m, objs) ==
    LET x == Obj(objs, i).x
        y == Obj(objs, i).y
    IN  IF ~is_blocked(x + dx, y + dy, m, objs)
        THEN [objs EXCEPT ![i + 1] = set_pos(@, x + dx, y + dy)]
        ELSE objs

Sign(n) == IF n > 0 THEN 1 ELSE IF n < 0 THEN -1 ELSE 0

(* the quotient cut off at the point instead of rounded *)
RoundedUnit_cut_off(d, dist2) == IF d # 0 /\ d * d >= dist2 THEN Sign(d) ELSE 0

(* (d as f32 / distance).round() as i32 for distance = sqrt(dx^2 + dy^2):
   |d| / distance >= 0.5 exactly when 4 d^2 >= dx^2 + dy^2 (equality has no
   integer solution but d = 0); a zero distance gives NaN, cast to 0 *)
RoundedUnit(d, dist2) == IF d # 0 /\ 4 * d * d >= dist2 THEN Sign(d) ELSE 0

(* move_towards: one step along the rounded unit vector to the target *)
move_towards(i, target_x, target_y, m, objs) ==
    LET dx == target_x - Obj(objs, i).x
        dy == target_y - Obj(objs, i).y
        dist2 == dx * dx + dy * dy
    IN  move_by(i, RoundedUnit(dx, dist2), RoundedUnit(dy, dist2), m, objs)

(* the smallest Rust index satisfying P, as Iterator::position and the
   first match of an enumerate() loop give it *)
First(S) == CHOOSE i \in S : \A j \in S : i <= j

(* the target_id of player_move_or_attack at <<x, y>> *)
AttackTargets(x, y, objs) ==
    {i \in Ids(objs) : is_some(Obj(objs, i).fighter) /\ pos(Obj(objs, i)) = <<x, y>>}

(* player_move_or_attack: the objects after it and the message of the
   attack, if any. mut_two(PLAYER, target_id) asserts the two differ: a
   panic is the result "panic" *)
player_move_or_attack(dx, dy, m, objs) ==
    LET x == Obj(objs, PLAYER).x + dx
        y == Obj(objs, PLAYER).y + dy
        targets == AttackTargets(x, y, objs)
    IN  IF targets # {}
        THEN LET target_id == First(targets)
                 r == attack(Obj(objs, PLAYER), Obj(objs, target_id))
             IN  IF target_id = PLAYER
                 THEN [objects |-> objs, msgs |-> <<>>, panic |-> TRUE]
                 ELSE [objects |-> [objs EXCEPT ![target_id + 1] = r.target],
                       msgs |-> <<r.msg>>, panic |-> FALSE]
        ELSE [objects |-> move_by(PLAYER, dx, dy, m, objs), msgs |-> <<>>,
              panic |-> FALSE]

-----------------------------------------------------------------------------
(* Field of view and target acquisition.                                   *)

(* FovMap::compute_fov and is_in_fov of the tcod library, for a level
   whose open tiles have nothing between them: the tiles within the radius
   of the origin *)
compute_fov(x, y, radius) ==
    {t \in Xs \X Ys : Dist2(x, y, t[1], t[2]) <= radius * radius}

(* closest_monster: the closest enemy in the player's FOV, closer than
   max_range + 1; ties go to the lowest index *)
ClosestCandidates(max_range, objs, f) ==
    {i \in Ids(objs) :
        /\ i # PLAYER
        /\ is_some(Obj(objs, i).fighter)
        /\ is_some(Obj(objs, i).ai)
        /\ pos(Obj(objs, i)) \in f
        /\ distance_to2(Obj(objs, PLAYER), Obj(objs, i))
             < (max_range + 1) * (max_range + 1)}

closest_monster(max_range, objs, f) ==
    LET c == ClosestCandidates(max_range, objs, f)
        nearest == {i \in c : \A j \in c :
                       distance_to2(Obj(objs, PLAYER), Obj(objs, i))
                         <= distance_to2(Obj(objs, PLAYER), Obj(objs, j))}
    IN  IF c = {} THEN None ELSE Some(First(nearest))

(* target_tile: the tiles a left click is accepted on *)
TargetTiles(objs, f, max_range) ==
    {t \in f : max_range = None
               \/ distance2(Obj(objs, PLAYER), t[1], t[2])
                    <= unwrap(max_range) * unwrap(max_range)}

(* target_monster on an accepted click: the first monster on the tile *)
MonstersAt(t, objs) ==
    {i \in Ids(objs) : pos(Obj(objs, i)) = t /\ is_some(Obj(objs, i).fighter)
                        /\ i # PLAYER}

(* target_monster: every result the clicks of the player can produce;
   a click on a tile without a monster is followed by another click *)
target_monster_any_fighter(objs, f, max_range) ==
    {None} \cup {Some(i) : i \in {j \in Ids(objs) :
                                    /\ pos(Obj(objs, j)) \in TargetTiles(objs, f, max_range)
                                    /\ is_some(Obj(objs, j).fighter)}}

target_monster(objs, f, max_range) ==
    {None} \cup {Some(First(MonstersAt(t, objs))) :
                    t \in {u \in TargetTiles(objs, f, max_range) :
                              MonstersAt(u, objs) # {}}}

(* target_tile: every result the clicks of the player can produce *)
target_tile(objs, f, max_range) ==
    {None} \cup {Some(t) : t \in TargetTiles(objs, f, max_range)}

-----------------------------------------------------------------------------
(* The AI state machine.                                                   *)

(* ai_basic: the objects after the turn and the message of the attack.
   If you can see it, it can see you *)
ai_basic_attacks_dead(monster_id, m, objs, f) ==
    IF pos(Obj(objs, monster_id)) \in f
    THEN IF distance_to2(Obj(objs, monster_id), Obj(objs, PLAYER)) >= 4
         THEN [objects |-> move_towards(monster_id, Obj(objs, PLAYER).x,
                                        Obj(objs, PLAYER).y, m, objs),
               msgs |-> <<>>, ai |-> Basic]
         ELSE LET r == attack(Obj(objs, monster_id), Obj(objs, PLAYER))
              IN  [objects |-> [objs EXCEPT ![PLAYER + 1] = r.target],
                   msgs |-> <<r.msg>>, ai |-> Basic]
    ELSE [objects |-> objs, msgs |-> <<>>, ai |-> Basic]

(* the monster acts whether or not the player sees it *)
ai_basic_ignores_fov(monster_id, m, objs, f) ==
    IF distance_to2(Obj(objs, monster_id), Obj(objs, PLAYER)) >= 4
    THEN [objects |-> move_towards(monster_id, Obj(objs, PLAYER).x,
                                   Obj(objs, PLAYER).y, m, objs),
          msgs |-> <<>>, ai |-> Basic]
    ELSE IF is_some(Obj(objs, PLAYER).fighter)
            /\ unwrap(Obj(objs, PLAYER).fighter).hp > 0
    THEN LET r == attack(Obj(objs, monster_id), Obj(objs, PLAYER))
         IN  [objects |-> [objs EXCEPT ![PLAYER + 1] = r.target],
              msgs |-> <<r.msg>>, ai |-> Basic]
    ELSE [objects |-> objs, msgs |-> <<>>, ai |-> Basic]

ai_basic(monster_id, m, objs, f) ==
    IF pos(Obj(objs, monster_id)) \in f
    THEN IF distance_to2(Obj(objs, monster_id), Obj(objs, PLAYER)) >= 4
         THEN [objects |-> move_towards(monster_id, Obj(objs, PLAYER).x,
                                        Obj(objs, PLAYER).y, m, objs),
               msgs |-> <<>>, ai |-> Basic]
         ELSE IF is_some(Obj(objs, PLAYER).fighter)
                 /\ unwrap(Obj(objs, PLAYER).fighter).hp > 0
         THEN LET r == attack(Obj(objs, monster_id), Obj(objs, PLAYER))
              IN  [objects |-> [objs EXCEPT ![PLAYER + 1] = r.target],
                   msgs |-> <<r.msg>>, ai |-> Basic]
         ELSE [objects |-> objs, msgs |-> <<>>, ai |-> Basic]
    ELSE [objects |-> objs, msgs |-> <<>>, ai |-> Basic]

(* ai_confused with the two rolls of gen_range(-1, 2) *)
ai_confused_off_by_one(monster_id, m, objs, previous_ai, num_turns, dx, dy) ==
    IF num_turns > 0
    THEN [objects |-> move_by(monster_id, dx, dy, m, objs), msgs |-> <<>>,
          ai |-> Confused(previous_ai, num_turns - 1)]
    ELSE [objects |-> objs, msgs |-> <<"is no longer confused">>,
          ai |-> previous_ai]

(* the wrapper is kept when its turns have run out *)
ai_confused_for_ever(monster_id, m, objs, previous_ai, num_turns, dx, dy) ==
    IF num_turns >= 0
    THEN [objects |-> move_by(monster_id, dx, dy, m, objs), msgs |-> <<>>,
          ai |-> Confused(previous_ai, num_turns - 1)]
    ELSE [objects |-> objs, msgs |-> <<"is no longer confused">>,
          ai |-> Confused(previous_ai, num_turns)]

ai_confused(monster_id, m, objs, previous_ai, num_turns, dx, dy) ==
    IF num_turns >= 0
    THEN [objects |-> move_by(monster_id, dx, dy, m, objs), msgs |-> <<>>,
          ai |-> Confused(previous_ai, num_turns - 1)]
    ELSE [objects |-> objs, msgs |-> <<"is no longer confused">>,
          ai |-> previous_ai]

(* the history field since counts the AI turns after a confuse cast; it
   stops counting once the confusion of that cast has run out *)
CountTurn(o) ==
    IF o.since >= 0 /\ o.since < CONFUSE_NUM_TURNS + 3
    THEN [o EXCEPT !.since = @ + 1] ELSE o

(* ai_take_turn: takes the AI out of the object, runs it and stores the
   AI it returns *)
ai_take_turn(monster_id, m, objs, f, dx, dy) ==
    IF is_some(Obj(objs, monster_id).ai)
    THEN LET ai == unwrap(Obj(objs, monster_id).ai)
             taken == [objs EXCEPT ![monster_id + 1].ai = None]
             r == IF IsConfused(ai)
                  THEN ai_confused(monster_id, m, taken, previous_ai_of(ai),
                                   num_turns_of(ai), dx, dy)
                  ELSE ai_basic(monster_id, m, taken, f)
         IN  [objects |-> [r.objects EXCEPT ![monster_id + 1] =
                              CountTurn([@ EXCEPT !.ai = Some(r.ai)])],
              msgs |-> r.msgs]
    ELSE [objects |-> objs, msgs |-> <<>>]

-----------------------------------------------------------------------------
(* Spells.                                                                 *)

(* cast_confuse with the result of target_monster *)
cast_confuse_flattening(objs, target) ==
    IF is_some(target)
    THEN LET monster_id == unwrap(target)
             o == Obj(objs, monster_id)
             old_ai == IF is_some(o.ai) THEN unwrap(o.ai) ELSE Basic
         IN  [objects |-> [objs EXCEPT ![monster_id + 1] =
                  [@ EXCEPT !.ai = Some(Confused(Basic, CONFUSE_NUM_TURNS)),
                            !.since = 0, !.wrapped = Some(old_ai)]],
              msgs |-> <<"Left-click an enemy to confuse it", "eyes look vacant">>,
              result |-> "UsedUp"]
    ELSE [objects |-> objs,
          msgs |-> <<"Left-click an enemy to confuse it",
                     "No enemy is close enough to strike.">>,
          result |-> "Cancelled"]

cast_confuse(objs, target) ==
    IF is_some(target)
    THEN LET monster_id == unwrap(target)
             o == Obj(objs, monster_id)
             old_ai == IF is_some(o.ai) THEN unwrap(o.ai) ELSE Basic
         IN  [objects |-> [objs EXCEPT ![monster_id + 1] =
                  [@ EXCEPT !.ai = Some(Confused(old_ai, CONFUSE_NUM_TURNS)),
                            !.since = 0, !.wrapped = Some(old_ai)]],
              msgs |-> <<"Left-click an enemy to confuse it", "eyes look vacant">>,
              result |-> "UsedUp"]
    ELSE [objects |-> objs,
          msgs |-> <<"Left-click an enemy to confuse it",
                     "No enemy is close enough to strike.">>,
          result |-> "Cancelled"]

(* the player credited with xp *)
GainXp(objs, xp) == [objs EXCEPT ![PLAYER + 1].fighter[1].xp = @ + xp]

(* cast_lightning: strikes closest_monster(LIGHTNING_RANGE) *)
cast_lightning(objs, f) ==
    LET target == closest_monster(LIGHTNING_RANGE, objs, f)
    IN  IF is_some(target)
        THEN LET monster_id == unwrap(target)
                 xp == take_damage_xp(Obj(objs, monster_id), LIGHTNING_DAMAGE)
                 struck == [objs EXCEPT ![monster_id + 1] =
                               take_damage(@, LIGHTNING_DAMAGE)]
             IN  [objects |-> IF is_some(xp) THEN GainXp(struck, unwrap(xp))
                              ELSE struck,
                  msgs |-> <<"A lighting bolt strikes">>, result |-> "UsedUp"]
        ELSE [objects |-> objs, msgs |-> <<"No enemy is close enough to strike.">>,
              result |-> "Cancelled"]

(* the objects cast_fireball burns: within FIREBALL_RADIUS, with a Fighter *)
Burned(objs, x, y) ==
    {i \in Ids(objs) : distance2(Obj(objs, i), x, y) <= FIREBALL_RADIUS * FIREBALL_RADIUS
                        /\ is_some(Obj(objs, i).fighter)}

(* xp_to_gain of cast_fireball: the rewards take_damage returned for the
   burned objects other than the player, summed over the indices below n *)
RECURSIVE xp_to_gain_counts_player(_, _, _)
xp_to_gain_counts_player(objs, burned, n) ==
    IF n = 0 THEN 0
    ELSE LET i == n - 1
             xp == IF i \in burned
                   THEN take_damage_xp(Obj(objs, i), FIREBALL_DAMAGE) ELSE None
         IN  xp_to_gain_counts_player(objs, burned, n - 1)
             + (IF is_some(xp) THEN unwrap(xp) ELSE 0)

RECURSIVE xp_to_gain(_, _, _)
xp_to_gain(objs, burned, n) ==
    IF n = 0 THEN 0
    ELSE LET i == n - 1
             xp == IF i \in burned
                   THEN take_damage_xp(Obj(objs, i), FIREBALL_DAMAGE) ELSE None
         IN  xp_to_gain(objs, burned, n - 1)
             + (IF is_some(xp) /\ i # PLAYER THEN unwrap(xp) ELSE 0)

(* cast_fireball with the result of target_tile *)
cast_fireball(objs, target) ==
    IF is_some(target)
    THEN LET x == unwrap(target)[1]
             y == unwrap(target)[2]
             burned == Burned(objs, x, y)
             after == [k \in 1 .. Len(objs) |->
                          IF (k - 1) \in burned
                          THEN take_damage(objs[k], FIREBALL_DAMAGE) ELSE objs[k]]
         IN  [objects |-> GainXp(after, xp_to_gain(objs, burned, Len(objs))),
              msgs |-> <<"Left-click a target tile for the fireball",
                         "The fireball explodes">>
                       \o [k \in 1 .. Cardinality(burned) |-> "gets burned"],
              result |-> "UsedUp"]
    ELSE [objects |-> objs, msgs |-> <<"Left-click a target tile for the fireball">>,
          result |-> "Cancelled"]

(* Vec::remove *)
Remove(seq, k) == SubSeq(seq, 1, k) \o SubSeq(seq, k + 2, Len(seq))

(* Vec::swap_remove: the last element takes the place of the removed one *)
swap_remove(seq, k) ==
    IF k + 1 = Len(seq) THEN SubSeq(seq, 1, k)
    ELSE [SubSeq(seq, 1, Len(seq) - 1) EXCEPT ![k + 1] = seq[Len(seq)]]

-----------------------------------------------------------------------------
(* Equipment and the inventory.                                            *)

Equipment(slot, max_hp_bonus, power_bonus, defense_bonus) ==
    [slot |-> slot, equipped |-> FALSE, max_hp_bonus |-> max_hp_bonus,
     power_bonus |-> power_bonus, defense_bonus |-> defense_bonus]

(* Object::equip and Object::dequip: only an item with an Equipment changes,
   and only its equipped flag *)
equip(self) ==
    IF is_some(self.item) /\ is_some(self.equipment)
       /\ ~unwrap(self.equipment).equipped
    THEN [self EXCEPT !.equipment[1].equipped = TRUE]
    ELSE self

dequip(self) ==
    IF is_some(self.item) /\ is_some(self.equipment)
       /\ unwrap(self.equipment).equipped
    THEN [self EXCEPT !.equipment[1].equipped = FALSE]
    ELSE self

IsEquipped(o) == is_some(o.equipment) /\ unwrap(o.equipment).equipped

(* get_equipped_in_slot: the first inventory item equipped in the slot *)
get_equipped_in_slot(slot, inv) ==
    LET found == {k \in 0 .. (Len(inv) - 1) :
                     IsEquipped(inv[k + 1]) /\ unwrap(inv[k + 1].equipment).slot = slot}
    IN  IF found = {} THEN None ELSE Some(First(found))

(* Object::get_all_equipped: the equipped items of the inventory, for the
   player; nothing for any other object *)
get_all_equipped(self, inv) ==
    IF self.name = <<"player">>
    THEN {k \in 1 .. Len(inv) : IsEquipped(inv[k])}
    ELSE {}

RECURSIVE SumOver(_, _, _)
SumOver(S, inv, bonus) ==
    IF S = {} THEN 0
    ELSE LET k == First(S)
         IN  unwrap(inv[k].equipment)[bonus] + SumOver(S \ {k}, inv, bonus)

(* Object::power, Object::defense and Object::max_hp: the base value plus
   the bonuses of everything equipped *)
power(self, inv) ==
    unwrap(self.fighter).base_power
    + SumOver(get_all_equipped(self, inv), inv, "power_bonus")

defense(self, inv) ==
    unwrap(self.fighter).base_defense
    + SumOver(get_all_equipped(self, inv), inv, "defense_bonus")

max_hp(self, inv) ==
    unwrap(self.fighter).base_max_hp
    + SumOver(get_all_equipped(self, inv), inv, "max_hp_bonus")

(* toggle_equipment *)
toggle_equipment_exclusive(inventory_id, inv) ==
    IF ~is_some(inv[inventory_id + 1].equipment)
    THEN [inventory |-> inv, msgs |-> <<>>, result |-> "Cancelled"]
    ELSE [inventory |->
            [k \in 1 .. Len(inv) |->
                IF k = inventory_id + 1
                THEN (IF IsEquipped(inv[k]) THEN dequip(inv[k]) ELSE equip(inv[k]))
                ELSE dequip(inv[k])],
          msgs |-> <<"equip">>, result |-> "UsedAndKept"]

toggle_equipment(inventory_id, inv) ==
    IF ~is_some(inv[inventory_id + 1].equipment)
    THEN [inventory |-> inv, msgs |-> <<>>, result |-> "Cancelled"]
    ELSE IF unwrap(inv[inventory_id + 1].equipment).equipped
    THEN [inventory |-> [inv EXCEPT ![inventory_id + 1] = dequip(@)],
          msgs |-> <<"dequip">>, result |-> "UsedAndKept"]
    ELSE [inventory |-> [inv EXCEPT ![inventory_id + 1] = equip(@)],
          msgs |-> <<"equip">>, result |-> "UsedAndKept"]

(* pick_item_up: refused when the inventory is full; otherwise the object
   leaves the list by swap_remove, is pushed on the inventory, and is
   equipped if its slot is free *)
pick_item_up_one_more(object_id, objs, inv) ==
    LET item == Obj(objs, object_id)
    IN  IF Len(inv) > MaxInventory
        THEN [objects |-> objs, inventory |-> inv,
              msgs |-> <<"Your inventory is full">>]
        ELSE [objects |-> swap_remove(objs, object_id),
              inventory |-> Append(inv, item), msgs |-> <<"You picked up">>]

pick_item_up_unchecked(object_id, objs, inv) ==
    [objects |-> swap_remove(objs, object_id),
     inventory |-> Append(inv, Obj(objs, object_id)),
     msgs |-> <<"You picked up">>]

pick_item_up_copies(object_id, objs, inv) ==
    LET item == Obj(objs, object_id)
    IN  IF Len(inv) >= MaxInventory
        THEN [objects |-> objs, inventory |-> inv,
              msgs |-> <<"Your inventory is full">>]
        ELSE [objects |-> objs,
              inventory |-> Append(inv, item), msgs |-> <<"You picked up">>]

pick_item_up(object_id, objs, inv) ==
    IF Len(inv) >= MaxInventory
    THEN [objects |-> objs, inventory |-> inv,
          msgs |-> <<"Your inventory is full">>]
    ELSE LET item == Obj(objs, object_id)
             index == Len(inv)
             slot == IF is_some(item.equipment)
                     THEN Some(unwrap(item.equipment).slot) ELSE None
             pushed == Append(inv, item)
         IN  [objects |-> swap_remove(objs, object_id),
              inventory |->
                 IF is_some(slot)
                    /\ ~is_some(get_equipped_in_slot(unwrap(slot), pushed))
                 THEN [pushed EXCEPT ![index + 1] = equip(@)]
                 ELSE pushed,
              msgs |-> <<"You picked up">>]

(* drop_item: the item leaves the inventory, is dequipped, and is pushed on
   the object list at the position of the player *)
drop_item(inventory_id, inv, objs) ==
    LET item == inv[inventory_id + 1]
        off == IF is_some(item.equipment) THEN dequip(item) ELSE item
    IN  [inventory |-> Remove(inv, inventory_id),
         objects |-> Append(objs, set_pos(off, Obj(objs, PLAYER).x,
                                          Obj(objs, PLAYER).y)),
         msgs |-> <<"You dropped">>]

(* Object::heal: hp grows by the amount, up to max_hp *)
heal(self, amount, inv) ==
    LET hp == unwrap(self.fighter).hp + amount
    IN  [self EXCEPT !.fighter[1].hp =
            IF hp > max_hp(self, inv) THEN max_hp(self, inv) ELSE hp]

(* cast_heal *)
cast_heal(objs, inv) ==
    LET player == Obj(objs, PLAYER)
    IN  IF is_some(player.fighter)
        THEN IF unwrap(player.fighter).hp = max_hp(player, inv)
             THEN [objects |-> objs,
                   msgs |-> <<"You are already at full health.">>,
                   result |-> "Cancelled"]
             ELSE [objects |-> [objs EXCEPT
                                  ![PLAYER + 1] = heal(@, HEAL_AMOUNT, inv)],
                   msgs |-> <<"Your wounds start to feel better!">>,
                   result |-> "UsedUp"]
        ELSE [objects |-> objs, msgs |-> <<>>, result |-> "Cancelled"]

(* the inputs of the target provider an item asks for *)
Targets(item, objs, f) ==
    IF item = "Confuse" THEN target_monster(objs, f, Some(CONFUSE_RANGE))
    ELSE IF item = "Fireball" THEN target_tile(objs, f, None)
    ELSE {None}

(* use_item: calls the on_use function of the item and destroys the item
   when it was used up *)
use_item_destroys_cancelled(inventory_id, objs, inv, f, target) ==
    LET item == unwrap(inv[inventory_id + 1].item)
        toggled == toggle_equipment(inventory_id, inv)
        r == CASE item = "Heal" -> cast_heal(objs, inv)
               [] item = "Lightning" -> cast_lightning(objs, f)
               [] item = "Confuse" -> cast_confuse(objs, target)
               [] item = "Fireball" -> cast_fireball(objs, target)
               [] item \in {"Sword", "Shield"} ->
                    [objects |-> objs, msgs |-> toggled.msgs,
                     result |-> toggled.result]
    IN  [objects |-> r.objects,
         inventory |-> IF item \in {"Sword", "Shield"} THEN toggled.inventory
                       ELSE Remove(inv, inventory_id),
         msgs |-> r.msgs, result |-> r.result]

use_item(inventory_id, objs, inv, f, target) ==
    IF is_some(inv[inventory_id + 1].item)
    THEN LET item == unwrap(inv[inventory_id + 1].item)
             toggled == toggle_equipment(inventory_id, inv)
             r == CASE item = "Heal" -> cast_heal(objs, inv)
                    [] item = "Lightning" -> cast_lightning(objs, f)
                    [] item = "Confuse" -> cast_confuse(objs, target)
                    [] item = "Fireball" -> cast_fireball(objs, target)
                    [] item \in {"Sword", "Shield"} ->
                         [objects |-> objs, msgs |-> toggled.msgs,
                          result |-> toggled.result]
             kept == IF item \in {"Sword", "Shield"} THEN toggled.inventory
                     ELSE inv
         IN  [objects |-> r.objects,
              inventory |-> IF r.result = "UsedUp"
                            THEN Remove(kept, inventory_id) ELSE kept,
              msgs |-> IF r.result = "Cancelled" THEN r.msgs \o <<"Cancelled">>
                       ELSE r.msgs,
              result |-> r.result]
    ELSE [objects |-> objs, inventory |-> inv, msgs |-> <<"cannot be used">>,
          result |-> "None"]

-----------------------------------------------------------------------------
(* Rooms and carving.                                                      *)

Rect_new(x, y, w, h) == [x1 |-> x, y1 |-> y, x2 |-> x + w, y2 |-> y + h]

(* the top left corner *)
center_top_left(r) == <<r.x1, r.y1>>

(* Rect::center; the coordinates are not negative, so / is \div *)
center(r) == <<(r.x1 + r.x2) \div 2, (r.y1 + r.y2) \div 2>>

(* Rect::intersects_with *)
intersects_with_strict(self, other) ==
    /\ self.x1 < other.x2 /\ self.x2 > other.x1
    /\ self.y1 < other.y2 /\ self.y2 > other.y1

intersects_with(self, other) ==
    /\ self.x1 <= other.x2 /\ self.x2 >= other.x1
    /\ self.y1 <= other.y2 /\ self.y2 >= other.y1

AllWalls == [x \in Xs |-> [y \in Ys |-> Tile_wall]]

(* create_room: the tiles strictly inside the rectangle become floor *)
create_room_with_border(room, m) ==
    [x \in Xs |-> [y \in Ys |->
        IF x >= room.x1 /\ x <= room.x2 /\ y >= room.y1 /\ y <= room.y2
        THEN Tile_empty ELSE m[x][y]]]

create_room(room, m) ==
    [x \in Xs |-> [y \in Ys |->
        IF x > room.x1 /\ x < room.x2 /\ y > room.y1 /\ y < room.y2
        THEN Tile_empty ELSE m[x][y]]]

Min(a, b) == IF a < b THEN a ELSE b
Max(a, b) == IF a > b THEN a ELSE b

(* create_h_tunnel and create_v_tunnel *)
create_h_tunnel(x1, x2, y, m) ==
    [x \in Xs |-> [yy \in Ys |->
        IF yy = y /\ x >= Min(x1, x2) /\ x <= Max(x1, x2)
        THEN Tile_empty ELSE m[x][yy]]]

create_v_tunnel(y1, y2, x, m) ==
    [xx \in Xs |-> [y \in Ys |->
        IF xx = x /\ y >= Min(y1, y2) /\ y <= Max(y1, y2)
        THEN Tile_empty ELSE m[xx][y]]]

-----------------------------------------------------------------------------
(* The game: main's loop on one level.                                     *)

(* the player main creates *)
NewPlayer ==
    [Object_new(0, 0, "@", "player", TRUE) EXCEPT
        !.alive = TRUE,
        !.fighter = Some([base_max_hp |-> 30, hp |-> 30, base_defense |-> 2,
                          base_power |-> 5, xp |-> 0, on_death |-> "Player"])]

(* the monsters, the scrolls and the stairs place_objects and make_map
   create *)
NewOrc(x, y) ==
    [Object_new(x, y, "o", "orc", TRUE) EXCEPT
        !.alive = TRUE,
        !.fighter = Some([base_max_hp |-> 20, hp |-> 20, base_defense |-> 0,
                          base_power |-> 4, xp |-> 35, on_death |-> "Monster"]),
        !.ai = Some(Basic)]

NewTroll(x, y) ==
    [Object_new(x, y, "T", "troll", TRUE) EXCEPT
        !.alive = TRUE,
        !.fighter = Some([base_max_hp |-> 30, hp |-> 30, base_defense |-> 2,
                          base_power |-> 8, xp |-> 100, on_death |-> "Monster"]),
        !.ai = Some(Basic)]

NewItem(x, y, item) ==
    [Object_new(x, y, IF item = "Heal" THEN "!" ELSE "#", item, FALSE) EXCEPT
        !.item = Some(item)]

(* the sword and the shield place_objects creates *)
NewSword(x, y) ==
    [NewItem(x, y, "Sword") EXCEPT
        !.equipment = Some(Equipment("RightHand", 0, 3, 0))]

NewShield(x, y) ==
    [NewItem(x, y, "Shield") EXCEPT
        !.equipment = Some(Equipment("LeftHand", 0, 0, 1))]

NewStairs(x, y) == Object_new(x, y, "<", "stairs", FALSE)

NoOp == [op |-> "none", who |-> -1, target |-> None, amount |-> 0,
         msgs |-> <<>>, result |-> "None"]

(* the level of the game: one room, the player and the stairs at its
   center as make_map places them, an orc and a troll; the game is entered
   in one of a few situations a session reaches, each with the hit points
   left and the scrolls in the inventory *)
GameRoom == Rect_new(0, 0, 4, 3)

Scenario(php, ohp, thp, op, tp, inv) ==
    [php |-> php, ohp |-> ohp, thp |-> thp, op |-> op, tp |-> tp, inv |-> inv]

Scenarios ==
    { Scenario(6, 20, 30, <<1, 1>>, <<3, 2>>, <<"Confuse", "Confuse">>),
      Scenario(2, 5, 3, <<1, 2>>, <<3, 1>>, <<"Fireball", "Lightning">>) }

WithHp(o, hp) == [o EXCEPT !.fighter[1].hp = hp]

RECURSIVE NewItems(_)
NewItems(kinds) ==
    IF kinds = <<>> THEN <<>>
    ELSE <<NewItem(0, 0, Head(kinds))>> \o NewItems(Tail(kinds))

Init ==
    /\ \E sc \in Scenarios :
          /\ objects = <<WithHp(set_pos(NewPlayer, center(GameRoom)[1],
                                        center(GameRoom)[2]), sc.php),
                         WithHp(NewOrc(sc.op[1], sc.op[2]), sc.ohp),
                         WithHp(NewTroll(sc.tp[1], sc.tp[2]), sc.thp),
                         NewStairs(center(GameRoom)[1], center(GameRoom)[2])>>
          /\ inventory = NewItems(sc.inv)
    /\ map = create_room(GameRoom, AllWalls)
    /\ fov = {}
    /\ previous_player_position = <<-1, -1>>
    /\ pc = "input"
    /\ player_action = "DidntTakeTurn"
    /\ id = 0
    /\ rooms = <<GameRoom>>
    /\ attempt = MAX_ROOMS
    /\ dungeon_level = 1
    /\ last = NoOp

(* render_all at the top of the loop: the FOV is recomputed only if the
   player moved since the previous iteration *)
render_all(objs, f, previous) ==
    IF previous # pos(Obj(objs, PLAYER))
    THEN compute_fov(Obj(objs, PLAYER).x, Obj(objs, PLAYER).y, TORCH_RADIUS)
    ELSE f

(* main, after handle_keys returned: Exit leaves the loop; the monsters
   take their turn if the player is alive and took a turn *)
ai_phase_runs_always(action, objs) == Obj(objs, PLAYER).alive

ai_phase_runs(action, objs) ==
    Obj(objs, PLAYER).alive /\ action # "DidntTakeTurn"

AfterKeys(action, objs) ==
    /\ player_action' = action
    /\ id' = 0
    /\ pc' = IF action = "Exit" THEN "exit"
             ELSE IF ai_phase_runs(action, objs) THEN "ai"
             ELSE "input"

(* one iteration of the loop up to handle_keys *)
BeforeKeys ==
    /\ pc = "input"
    /\ fov' = render_all(objects, fov, previous_player_position)
    /\ previous_player_position' = pos(Obj(objects, PLAYER))

MoveKeys == {<<0, -1>>, <<0, 1>>, <<-1, 0>>, <<1, 0>>}

(* handle_keys, Up / Down / Left / Right with the player alive *)
KeyMove ==
    /\ BeforeKeys
    /\ Obj(objects, PLAYER).alive
    /\ \E d \in MoveKeys :
         LET r == player_move_or_attack(d[1], d[2], map, objects)
         IN  /\ objects' = r.objects
             /\ last' = [NoOp EXCEPT !.op = "player_move_or_attack",
                                     !.who = PLAYER, !.msgs = r.msgs]
             /\ IF r.panic
                THEN pc' = "panic" /\ player_action' = player_action /\ id' = id
                ELSE AfterKeys("TookTurn", r.objects)
    /\ UNCHANGED <<inventory, map, rooms, attempt, dungeon_level>>

(* handle_keys, Escape *)
KeyEscape ==
    /\ BeforeKeys
    /\ AfterKeys("Exit", objects)
    /\ last' = [NoOp EXCEPT !.op = "exit"]
    /\ UNCHANGED <<objects, inventory, map, rooms, attempt, dungeon_level>>

(* handle_keys, any other key, and every key but Escape once the player
   is dead *)
KeyOther ==
    /\ BeforeKeys
    /\ AfterKeys("DidntTakeTurn", objects)
    /\ last' = [NoOp EXCEPT !.op = "other_key"]
    /\ UNCHANGED <<objects, inventory, map, rooms, attempt, dungeon_level>>

(* the use-item intent of the player: use_item on a slot of the inventory,
   with the answer of the target provider; the action counts as a turn or
   not *)
KeyUseItem ==
    /\ BeforeKeys
    /\ Obj(objects, PLAYER).alive
    /\ \E inventory_id \in 0 .. (Len(inventory) - 1) :
       \E target \in Targets(unwrap(inventory[inventory_id + 1].item), objects, fov') :
       \E action \in {"TookTurn", "DidntTakeTurn"} :
         LET r == use_item(inventory_id, objects, inventory, fov', target)
         IN  /\ objects' = r.objects
             /\ inventory' = r.inventory
             /\ last' = [NoOp EXCEPT !.op = unwrap(inventory[inventory_id + 1].item),
                                     !.who = PLAYER, !.target = target,
                                     !.msgs = r.msgs, !.result = r.result]
             /\ AfterKeys(action, r.objects)
    /\ UNCHANGED <<map, rooms, attempt, dungeon_level>>

(* one iteration of the for loop of the AI phase: objects[id] takes its
   turn if it has an Ai; the loop ends at objects.len() *)
AiTurn ==
    /\ pc = "ai"
    /\ \E dx \in -1 .. 1, dy \in -1 .. 1 :
         LET r == IF is_some(Obj(objects, id).ai)
                  THEN ai_take_turn(id, map, objects, fov, dx, dy)
                  ELSE [objects |-> objects, msgs |-> <<>>]
         IN  /\ objects' = r.objects
             /\ last' = IF is_some(Obj(objects, id).ai)
                        THEN [NoOp EXCEPT !.op = "ai_take_turn", !.who = id,
                                          !.msgs = r.msgs]
                        ELSE [NoOp EXCEPT !.op = "ai_skip", !.who = id]
    /\ id' = id + 1
    /\ pc' = IF id + 1 < Len(objects) THEN "ai" ELSE "input"
    /\ UNCHANGED <<inventory, map, fov, previous_player_position,
                   player_action, rooms, attempt, dungeon_level>>

Next == KeyMove \/ KeyEscape \/ KeyOther \/ KeyUseItem \/ AiTurn

Spec == Init /\ [][Next]_vars

(* the game loop with its scheduling: the for loop of the AI phase
   (main.rs:272-276) runs to its end once entered, nothing in it waits; the
   keys are the player's to press or not *)
(* the situation the liveness of the AI phase is checked from: the player,
   one orc and the stairs, two confuse scrolls in the inventory (the troll
   of the record is not on the level) *)
LiveScenario ==
    Scenario(6, 5, 3, <<1, 1>>, <<3, 2>>, <<"Confuse", "Confuse">>)

LiveInit ==
    /\ objects = <<WithHp(set_pos(NewPlayer, center(GameRoom)[1],
                                  center(GameRoom)[2]), LiveScenario.php),
                   WithHp(NewOrc(LiveScenario.op[1], LiveScenario.op[2]),
                          LiveScenario.ohp),
                   NewStairs(center(GameRoom)[1], center(GameRoom)[2])>>
    /\ inventory = NewItems(LiveScenario.inv)
    /\ map = create_room(GameRoom, AllWalls)
    /\ fov = {}
    /\ previous_player_position = <<-1, -1>>
    /\ pc = "input"
    /\ player_action = "DidntTakeTurn"
    /\ id = 0
    /\ rooms = <<GameRoom>>
    /\ attempt = MAX_ROOMS
    /\ dungeon_level = 1
    /\ last = NoOp

SpecLive == LiveInit /\ [][Next]_vars /\ WF_vars(AiTurn)

-----------------------------------------------------------------------------
(* The dungeon generator.                                                  *)

Transition(level, value) == [level |-> level, value |-> value]

(* from_dungeon_level: the value of the last transition at or below the
   level, 0 if there is none *)
RECURSIVE from_dungeon_level_forward(_, _)
from_dungeon_level_forward(table, level) ==
    IF table = <<>> THEN 0
    ELSE IF level >= Head(table).level THEN Head(table).value
    ELSE from_dungeon_level_forward(Tail(table), level)

RECURSIVE from_dungeon_level(_, _)
from_dungeon_level(table, level) ==
    IF table = <<>> THEN 0
    ELSE IF level >= table[Len(table)].level THEN table[Len(table)].value
    ELSE from_dungeon_level(SubSeq(table, 1, Len(table) - 1), level)

(* the kinds a WeightedChoice can draw: those of positive weight *)
Drawn_with_zero_weight(chances) == {c.item : c \in chances}
Drawn(chances) == {c.item : c \in {d \in chances : d.weight > 0}}
Weighted(weight, item) == [weight |-> weight, item |-> item]

monster_chances(level) ==
    { Weighted(80, "orc"),
      Weighted(from_dungeon_level(<<Transition(3, 15), Transition(5, 30),
                                    Transition(7, 60)>>, level), "troll") }

item_chances(level) ==
    { Weighted(35, "Heal"),
      Weighted(from_dungeon_level(<<Transition(4, 25)>>, level), "Lightning"),
      Weighted(from_dungeon_level(<<Transition(6, 25)>>, level), "Fireball"),
      Weighted(from_dungeon_level(<<Transition(2, 10)>>, level), "Confuse"),
      Weighted(from_dungeon_level(<<Transition(4, 5)>>, level), "Sword"),
      Weighted(from_dungeon_level(<<Transition(8, 15)>>, level), "Shield") }

max_monsters(level) ==
    from_dungeon_level(<<Transition(1, 2), Transition(4, 3), Transition(6, 5)>>,
                       level)
max_items(level) ==
    from_dungeon_level(<<Transition(1, 1), Transition(4, 2)>>, level)
max_torches == 1

(* the spots gen_range(room.x1 + 1, room.x2) and gen_range(room.y1 + 1,
   room.y2) draw *)
Spots(room) == ((room.x1 + 1) .. (room.x2 - 1)) \X ((room.y1 + 1) .. (room.y2 - 1))

NewMonster(kind, x, y) == IF kind = "orc" THEN NewOrc(x, y) ELSE NewTroll(x, y)
NewItemOfKind(kind, x, y) ==
    IF kind = "Sword" THEN NewSword(x, y)
    ELSE IF kind = "Shield" THEN NewShield(x, y)
    ELSE NewItem(x, y, kind)
NewTorch(x, y) ==
    [Object_new(x, y, "i", "torch", FALSE) EXCEPT
        !.emitter = Some([radius |-> 2])]

(* one pass of a placement loop of place_objects: the object is pushed
   only if its spot is not blocked *)
PlaceOne(room, m, objs, made) ==
    { IF ~is_blocked(o.x, o.y, m, objs) THEN Append(objs, o) ELSE objs :
        o \in made }

(* n passes, from every list in from *)
RECURSIVE PlaceMany(_, _, _, _, _)
PlaceMany(room, m, from, made, n) ==
    IF n = 0 THEN from
    ELSE PlaceMany(room, m,
                   UNION {PlaceOne(room, m, objs, made) : objs \in from},
                   made, n - 1)

(* every number of passes gen_range(0, max + 1) draws *)
PlaceUpTo(room, m, from, made, max) ==
    UNION {PlaceMany(room, m, from, made, n) : n \in 0 .. max}

(* place_objects: every list of objects it can leave: monsters, then
   items, then torches *)
place_objects(room, m, objs, level) ==
    LET monsters == {NewMonster(k, t[1], t[2]) :
                        k \in Drawn(monster_chances(level)), t \in Spots(room)}
        items == {NewItemOfKind(k, t[1], t[2]) :
                        k \in Drawn(item_chances(level)), t \in Spots(room)}
        torches == {NewTorch(t[1], t[2]) : t \in Spots(room)}
        with_monsters == PlaceUpTo(room, m, {objs}, monsters, max_monsters(level))
        with_items == PlaceUpTo(room, m, with_monsters, items, max_items(level))
    IN  PlaceUpTo(room, m, with_items, torches, max_torches)

(* the rooms make_map draws: gen_range(ROOM_MIN_SIZE, ROOM_MAX_SIZE + 1)
   for w and h, gen_range(0, MAP_WIDTH - w) and gen_range(0, MAP_HEIGHT - h)
   for x and y *)
DrawnRooms ==
    {Rect_new(x, y, w, h) :
        <<x, y, w, h>> \in
            {q \in (0 .. MAP_WIDTH) \X (0 .. MAP_HEIGHT)
                   \X (ROOM_MIN_SIZE .. ROOM_MAX_SIZE)
                   \X (ROOM_MIN_SIZE .. ROOM_MAX_SIZE) :
                q[1] < MAP_WIDTH - q[3] /\ q[2] < MAP_HEIGHT - q[4]}}

(* both tunnels leave the center of the previous room *)
connect_wrong_corner(prev, new, coin, m) ==
    IF coin
    THEN create_v_tunnel(prev[2], new[2], prev[1],
                         create_h_tunnel(prev[1], new[1], prev[2], m))
    ELSE create_h_tunnel(prev[1], new[1], new[2],
                         create_v_tunnel(prev[2], new[2], prev[1], m))

(* the tunnel between the centers of the previous and the new room *)
connect(prev, new, coin, m) ==
    IF coin
    THEN create_v_tunnel(prev[2], new[2], new[1],
                         create_h_tunnel(prev[1], new[1], prev[2], m))
    ELSE create_h_tunnel(prev[1], new[1], new[2],
                         create_v_tunnel(prev[2], new[2], prev[1], m))

(* Vec::truncate does nothing *)
truncate_keeps_all(objs, len) == objs

(* Vec::truncate: the first len elements stay *)
truncate(objs, len) == SubSeq(objs, 1, Min(len, Len(objs)))

(* make_map up to its loop: a map of walls, and every object but the
   player removed *)
MakeMapStart ==
    /\ pc = "make_map"
    /\ map' = AllWalls
    /\ objects' = truncate(objects, 1)
    /\ rooms' = <<>>
    /\ attempt' = 0
    /\ pc' = "rooms"
    /\ last' = [NoOp EXCEPT !.op = "make_map"]
    /\ UNCHANGED <<inventory, fov, previous_player_position, player_action,
                   id, dungeon_level>>

(* one pass of the loop over MAX_ROOMS *)
MakeMapRoom ==
    /\ pc = "rooms"
    /\ attempt < MAX_ROOMS
    /\ attempt' = attempt + 1
    /\ \E new_room \in DrawnRooms :
         LET failed == \E k \in 1 .. Len(rooms) : intersects_with(new_room, rooms[k])
             carved == create_room(new_room, map)
             new == center(new_room)
         IN  IF failed
             THEN /\ UNCHANGED <<map, objects, rooms>>
                  /\ last' = [NoOp EXCEPT !.op = "room_rejected"]
             ELSE /\ \E placed \in place_objects(new_room, carved, objects,
                                                dungeon_level) :
                     objects' = IF rooms = <<>>
                                THEN [placed EXCEPT ![PLAYER + 1] =
                                         set_pos(@, new[1], new[2])]
                                ELSE placed
                  /\ \E coin \in BOOLEAN :
                     map' = IF rooms = <<>> THEN carved
                            ELSE connect(center(rooms[Len(rooms)]), new, coin,
                                         carved)
                  /\ rooms' = Append(rooms, new_room)
                  /\ last' = [NoOp EXCEPT !.op = "room_accepted"]
    /\ UNCHANGED <<inventory, fov, previous_player_position, pc, player_action,
                   id, dungeon_level>>

(* make_map after its loop: the stairs at the center of the last room *)
MakeMapEnd ==
    /\ pc = "rooms"
    /\ attempt = MAX_ROOMS
    /\ objects' = Append(objects, NewStairs(center(rooms[Len(rooms)])[1],
                                            center(rooms[Len(rooms)])[2]))
    /\ pc' = "map_done"
    /\ last' = [NoOp EXCEPT !.op = "stairs"]
    /\ UNCHANGED <<inventory, map, fov, previous_player_position,
                   player_action, id, rooms, attempt, dungeon_level>>

(* the items get the numbers 1, 2, ... in the order of the list *)
RECURSIVE Numbered(_, _)
Numbered(items, n) ==
    IF items = <<>> THEN <<>>
    ELSE <<[Head(items) EXCEPT !.uid = n]>> \o Numbered(Tail(items), n + 1)

(* make_map is called with the objects of the level the player leaves:
   the player stands on its stairs with the hit points, the experience,
   the level and the inventory of the moment; the objects and the items of
   that level are numbered *)
MapInit ==
    /\ objects = <<[set_pos(NewPlayer, 2, 1) EXCEPT
                       !.fighter[1].hp = 17, !.fighter[1].xp = 35,
                       !.level = 2]>>
                 \o Numbered(<<NewOrc(1, 1), NewItem(1, 2, "Heal"),
                                NewTorch(3, 1), NewStairs(2, 1)>>, 1)
    /\ inventory = Numbered(<<NewItem(0, 0, "Confuse")>>, 5)
    /\ map = create_room(GameRoom, AllWalls)
    /\ fov = {}
    /\ previous_player_position = <<-1, -1>>
    /\ pc = "make_map"
    /\ player_action = "DidntTakeTurn"
    /\ id = 0
    /\ rooms = <<>>
    /\ attempt = 0
    /\ dungeon_level = 1
    /\ last = NoOp

MapNext == MakeMapStart \/ MakeMapRoom \/ MakeMapEnd

SpecMap == MapInit /\ [][MapNext]_vars

(* place_objects alone, on the first room of a level of every depth: the
   room is carved, the player is still where the level before left them *)
PopRoom == Rect_new(0, 0, 3, 2)

PopInit ==
    /\ dungeon_level \in 1 .. MaxDepth
    /\ objects = <<NewPlayer>>
    /\ inventory = <<>>
    /\ map = create_room(PopRoom, AllWalls)
    /\ fov = {}
    /\ previous_player_position = <<-1, -1>>
    /\ pc = "place_objects"
    /\ player_action = "DidntTakeTurn"
    /\ id = 0
    /\ rooms = <<>>
    /\ attempt = 0
    /\ last = NoOp

Populate ==
    /\ pc = "place_objects"
    /\ objects' \in place_objects(PopRoom, map, objects, dungeon_level)
    /\ pc' = "placed"
    /\ last' = [NoOp EXCEPT !.op = "place_objects"]
    /\ UNCHANGED <<inventory, map, fov, previous_player_position,
                   player_action, id, rooms, attempt, dungeon_level>>

PopNext == Populate

SpecPop == PopInit /\ [][PopNext]_vars

-----------------------------------------------------------------------------
(* The combat harness: take_damage and attack applied to two fighters      *)
(* with drawn statistics, the first dying as the player does and the       *)
(* second as a monster does.                                               *)

Fighters(on_death, name) ==
    { [Object_new(0, 0, "f", name, TRUE) EXCEPT
          !.alive = TRUE,
          !.fighter = Some([base_max_hp |-> MaxHp, hp |-> hp,
                            base_defense |-> df, base_power |-> pw,
                            xp |-> 35, on_death |-> on_death])] :
        hp \in 1 .. MaxHp, df \in 0 .. MaxStat, pw \in 0 .. MaxStat }

CombatInit ==
    /\ objects \in {<<a, b>> : a \in Fighters("Player", "player"),
                               b \in Fighters("Monster", "orc")}
    /\ inventory = <<>>
    /\ map = create_room(GameRoom, AllWalls)
    /\ fov = {}
    /\ previous_player_position = <<-1, -1>>
    /\ pc = "combat"
    /\ player_action = "DidntTakeTurn"
    /\ id = 0
    /\ rooms = <<GameRoom>>
    /\ attempt = MAX_ROOMS
    /\ dungeon_level = 1
    /\ last = NoOp

(* an object is hit at most until its death callback ran twice *)
CombatLive(o) == o.deaths < 2

(* take_damage(damage) on objects[i] *)
CombatTakeDamage ==
    /\ pc = "combat"
    /\ \E i \in Ids(objects), damage \in (-MaxDamage) .. MaxDamage :
         /\ CombatLive(Obj(objects, i))
         /\ objects' = [objects EXCEPT ![i + 1] = take_damage(@, damage)]
         /\ last' = [NoOp EXCEPT !.op = "take_damage", !.who = i,
                                 !.amount = damage]
    /\ UNCHANGED <<inventory, map, fov, previous_player_position, pc,
                   player_action, id, rooms, attempt, dungeon_level>>

(* objects[i].attack(objects[j]) through mut_two(i, j) *)
CombatAttack ==
    /\ pc = "combat"
    /\ \E i \in Ids(objects), j \in Ids(objects) :
         /\ i # j
         /\ CombatLive(Obj(objects, j))
         /\ LET r == attack(Obj(objects, i), Obj(objects, j))
            IN  /\ objects' = [objects EXCEPT ![j + 1] = r.target]
                /\ last' = [NoOp EXCEPT !.op = "attack", !.who = i,
                                        !.target = Some(j), !.msgs = <<r.msg>>]
    /\ UNCHANGED <<inventory, map, fov, previous_player_position, pc,
                   player_action, id, rooms, attempt, dungeon_level>>

CombatNext == CombatTakeDamage \/ CombatAttack

SpecCombat == CombatInit /\ [][CombatNext]_vars

-----------------------------------------------------------------------------
(* The inventory: pick-up, drop and use of the items at the feet of the   *)
(* player, as handle_keys calls them.                                     *)

(* a dagger: a second weapon, for the left hand *)
NewDagger(x, y) ==
    [NewItem(x, y, "Sword") EXCEPT
        !.name = <<"dagger">>,
        !.equipment = Some(Equipment("LeftHand", 0, 2, 0))]

(* the situations the inventory is checked from: the position and hit
   points of the player, the position of an orc with 5 hit points, and the
   items lying at the feet of the player *)
InvScenarios ==
    { [pp |-> <<2, 1>>, php |-> 30, op |-> <<1, 1>>,
       items |-> <<NewDagger(2, 1), NewSword(2, 1), NewShield(2, 1),
                   NewItem(2, 1, "Heal")>>],
      [pp |-> <<1, 1>>, php |-> 27, op |-> <<3, 2>>,
       items |-> <<NewItem(1, 1, "Heal"), NewItem(1, 1, "Lightning"),
                   NewItem(1, 1, "Confuse"), NewItem(1, 1, "Fireball")>>],
      [pp |-> <<2, 1>>, php |-> 6, op |-> <<1, 2>>,
       items |-> <<NewItem(2, 1, "Lightning"), NewItem(2, 1, "Confuse"),
                   NewItem(2, 1, "Fireball"), NewSword(2, 1)>>] }

InvInit ==
    /\ \E sc \in InvScenarios :
          /\ objects = <<WithHp(set_pos(NewPlayer, sc.pp[1], sc.pp[2]), sc.php),
                         WithHp(NewOrc(sc.op[1], sc.op[2]), 5)>>
                       \o Numbered(sc.items, 1)
          /\ fov = compute_fov(sc.pp[1], sc.pp[2], TORCH_RADIUS)
          /\ previous_player_position = sc.pp
    /\ inventory = <<>>
    /\ map = create_room(GameRoom, AllWalls)
    /\ pc = "inventory"
    /\ player_action = "DidntTakeTurn"
    /\ id = 0
    /\ rooms = <<GameRoom>>
    /\ attempt = MAX_ROOMS
    /\ dungeon_level = 1
    /\ last = NoOp

(* handle_keys, pick-up key: the first item at the position of the player
   is picked up *)
ItemsHere(objs) ==
    {i \in Ids(objs) : pos(Obj(objs, i)) = pos(Obj(objs, PLAYER))
                       /\ is_some(Obj(objs, i).item)}

InvPickUp ==
    /\ pc = "inventory"
    /\ Obj(objects, PLAYER).alive
    /\ ItemsHere(objects) # {}
    /\ LET item_id == First(ItemsHere(objects))
           r == pick_item_up(item_id, objects, inventory)
       IN  /\ objects' = r.objects
           /\ inventory' = r.inventory
           /\ last' = [NoOp EXCEPT !.op = "pick_item_up", !.who = item_id,
                                   !.msgs = r.msgs]
    /\ UNCHANGED <<map, fov, previous_player_position, pc, player_action, id,
                   rooms, attempt, dungeon_level>>

(* handle_keys, drop key: the item chosen in the inventory menu is dropped *)
InvDrop ==
    /\ pc = "inventory"
    /\ Obj(objects, PLAYER).alive
    /\ \E inventory_id \in 0 .. (Len(inventory) - 1) :
         LET r == drop_item(inventory_id, inventory, objects)
         IN  /\ objects' = r.objects
             /\ inventory' = r.inventory
             /\ last' = [NoOp EXCEPT !.op = "drop_item", !.who = inventory_id,
                                     !.msgs = r.msgs]
    /\ UNCHANGED <<map, fov, previous_player_position, pc, player_action, id,
                   rooms, attempt, dungeon_level>>

(* handle_keys, inventory key: the item chosen in the inventory menu is
   used, with the answer of the target provider *)
InvUse ==
    /\ pc = "inventory"
    /\ Obj(objects, PLAYER).alive
    /\ \E inventory_id \in 0 .. (Len(inventory) - 1) :
       \E target \in Targets(unwrap(inventory[inventory_id + 1].item), objects, fov) :
         LET r == use_item(inventory_id, objects, inventory, fov, target)
         IN  /\ objects' = r.objects
             /\ inventory' = r.inventory
             /\ last' = [NoOp EXCEPT !.op = unwrap(inventory[inventory_id + 1].item),
                                     !.who = inventory_id,
                                     !.target = target, !.msgs = r.msgs,
                                     !.result = r.result]
    /\ UNCHANGED <<map, fov, previous_player_position, pc, player_action, id,
                   rooms, attempt, dungeon_level>>

InvNext == InvPickUp \/ InvDrop \/ InvUse

SpecInv == InvInit /\ [][InvNext]_vars

(* the inventory and the generator together: the operations that add,
   remove or reorder objects *)
SpecWorld == (InvInit \/ MapInit) /\ [][InvNext \/ MapNext]_vars

-----------------------------------------------------------------------------
(* level_up, called in every pass of the game loop.                        *)

(* level_up: the threshold, computed before the level is raised *)
level_up_xp(player) == LEVEL_UP_BASE + player.level * LEVEL_UP_FACTOR

(* level_up up to the menu: the level is raised if the xp reach the
   threshold *)
level_up_begin(objs) ==
    LET player == Obj(objs, PLAYER)
    IN  IF (IF is_some(player.fighter) THEN unwrap(player.fighter).xp ELSE 0)
           >= level_up_xp(player)
        THEN [objs EXCEPT ![PLAYER + 1].level = @ + 1]
        ELSE objs

(* level_up after the menu: the threshold is paid and the chosen stat is
   raised *)
level_up_choice_resets_xp(objs, threshold, choice) ==
    LET f == unwrap(Obj(objs, PLAYER).fighter)
    IN  [objs EXCEPT ![PLAYER + 1].fighter =
           Some(CASE choice = 0 -> [f EXCEPT !.xp = 0,
                                             !.base_max_hp = @ + 20,
                                             !.hp = @ + 20]
                  [] choice = 1 -> [f EXCEPT !.xp = 0, !.base_power = @ + 1]
                  [] choice = 2 -> [f EXCEPT !.xp = 0, !.base_defense = @ + 1])]

level_up_choice_constitution_only(objs, threshold, choice) ==
    LET f == unwrap(Obj(objs, PLAYER).fighter)
    IN  [objs EXCEPT ![PLAYER + 1].fighter =
           Some([f EXCEPT !.xp = @ - threshold, !.base_max_hp = @ + 20,
                          !.hp = @ + 20])]

level_up_choice(objs, threshold, choice) ==
    LET f == unwrap(Obj(objs, PLAYER).fighter)
    IN  [objs EXCEPT ![PLAYER + 1].fighter =
           Some(CASE choice = 0 -> [f EXCEPT !.xp = @ - threshold,
                                             !.base_max_hp = @ + 20,
                                             !.hp = @ + 20]
                  [] choice = 1 -> [f EXCEPT !.xp = @ - threshold,
                                             !.base_power = @ + 1]
                  [] choice = 2 -> [f EXCEPT !.xp = @ - threshold,
                                             !.base_defense = @ + 1])]

(* menu: the index of the option of the key, None for any other key *)
menu(options) == {None} \cup {Some(index) : index \in 0 .. (options - 1)}

LevelInit ==
    /\ \E xp \in 0 .. MaxXp, level \in 1 .. MaxPlayerLevel, hp \in {12, 30} :
          objects = <<[WithHp(NewPlayer, hp) EXCEPT !.level = level,
                                                    !.fighter[1].xp = xp]>>
    /\ inventory = <<>>
    /\ map = AllWalls
    /\ fov = {}
    /\ previous_player_position = <<-1, -1>>
    /\ pc = "level_up"
    /\ player_action = "DidntTakeTurn"
    /\ id = 0
    /\ rooms = <<>>
    /\ attempt = 0
    /\ dungeon_level = 1
    /\ last = NoOp

(* level_up from its call to the first menu, or to its end when the xp are
   below the threshold; last.amount keeps level_up_xp *)
LevelUpCheck ==
    /\ pc = "level_up"
    /\ objects' = level_up_begin(objects)
    /\ pc' = IF objects' = objects THEN "level_up" ELSE "menu"
    /\ attempt' = 0
    /\ last' = [NoOp EXCEPT !.op = "level_up",
                            !.amount = level_up_xp(Obj(objects, PLAYER))]
    /\ UNCHANGED <<inventory, map, fov, previous_player_position,
                   player_action, id, rooms, dungeon_level>>

(* one pass of the loop around the menu: it ends with a choice *)
LevelUpMenu ==
    /\ pc = "menu"
    /\ \E choice \in menu(3) :
         IF choice = None
         THEN /\ attempt < MaxPrompts
              /\ attempt' = attempt + 1
              /\ last' = [last EXCEPT !.op = "menu", !.target = None]
              /\ UNCHANGED <<objects, pc>>
         ELSE /\ objects' = level_up_choice(objects, last.amount, unwrap(choice))
              /\ pc' = "level_up"
              /\ last' = [last EXCEPT !.op = "level_up_choice", !.target = choice]
              /\ UNCHANGED attempt
    /\ UNCHANGED <<inventory, map, fov, previous_player_position,
                   player_action, id, rooms, dungeon_level>>

LevelNext == LevelUpCheck \/ LevelUpMenu

SpecLevel == LevelInit /\ [][LevelNext]_vars

-----------------------------------------------------------------------------
(* from_dungeon_level on the tables of place_objects and on every other   *)
(* table ordered by level.                                                *)

(* the values of the transitions: those of the max_monsters table and 0 *)
TableValues == {0, 2, 3, 5}

Transitions == {Transition(l, v) : l \in 1 .. MaxLevel, v \in TableValues}

Tables ==
    UNION {{t \in [1 .. n -> Transitions] :
               \A k \in 1 .. (n - 1) : t[k].level <= t[k + 1].level} :
           n \in 0 .. MaxTable}

(* the table is kept in last.target, the level in dungeon_level and the
   value of the call in last.amount *)
TableInit ==
    /\ \E table \in Tables : last = [NoOp EXCEPT !.target = Some(table)]
    /\ dungeon_level \in 0 .. (MaxLevel + 1)
    /\ objects = <<NewPlayer>>
    /\ inventory = <<>>
    /\ map = AllWalls
    /\ fov = {}
    /\ previous_player_position = <<-1, -1>>
    /\ pc = "table"
    /\ player_action = "DidntTakeTurn"
    /\ id = 0
    /\ rooms = <<>>
    /\ attempt = 0

TableLookup ==
    /\ pc = "table"
    /\ last' = [last EXCEPT
                  !.op = "from_dungeon_level",
                  !.amount = from_dungeon_level(unwrap(last.target),
                                                dungeon_level)]
    /\ pc' = "table_done"
    /\ UNCHANGED <<objects, inventory, map, fov, previous_player_position,
                   player_action, id, rooms, attempt, dungeon_level>>

TableNext == TableLookup

SpecTable == TableInit /\ [][TableNext]_vars

-----------------------------------------------------------------------------
(* Visibility and lighting: render_all of render.rs in main's loop.        *)

(* emitter_fovs: one FOV for every object that emits light, in the order
   of the objects *)
emitter_fovs(objs) ==
    LET emitters == SelectSeq(objs, LAMBDA o : is_some(o.emitter))
    IN  [k \in 1 .. Len(emitters) |->
            compute_fov(emitters[k].x, emitters[k].y,
                        unwrap(emitters[k].emitter).radius)]

(* only the last emitter is asked *)
in_emitter_light_last_only(fovs, x, y) ==
    Len(fovs) > 0 /\ <<x, y>> \in fovs[Len(fovs)]

(* in_emitter_light: the loop over emitter_fovs stops at the first FOV
   that holds the tile *)
in_emitter_light(fovs, x, y) ==
    \E k \in 1 .. Len(fovs) : <<x, y>> \in fovs[k]

(* the first loop over the tiles: lit is set or cleared on every tile *)
light_tiles(m, objs) ==
    [x \in Xs |-> [y \in Ys |->
        [m[x][y] EXCEPT !.lit = in_emitter_light(emitter_fovs(objs), x, y)]]]

(* a tile is explored only while it is seen *)
explore_tiles_while_seen(m, f) ==
    [x \in Xs |-> [y \in Ys |->
        [m[x][y] EXCEPT !.explored = (<<x, y>> \in f) \/ m[x][y].lit]]]

(* the second loop over the tiles: a tile visible to the player or lit
   becomes explored *)
explore_tiles(m, f) ==
    [x \in Xs |-> [y \in Ys |->
        [m[x][y] EXCEPT !.explored = IF (<<x, y>> \in f) \/ m[x][y].lit
                                     THEN TRUE ELSE @]]]

(* the FOV and the flags are recomputed whatever fov_recompute is *)
render_all_game_always(objs, m, f, fov_recompute) ==
    LET player == Obj(objs, PLAYER)
        seen == compute_fov(player.x, player.y, player.fov_radius)
    IN  [map |-> explore_tiles(light_tiles(m, objs), seen), fov |-> seen]

(* render_all of render.rs: the map and the player's FOV after it *)
render_all_game(objs, m, f, fov_recompute) ==
    IF fov_recompute
    THEN LET player == Obj(objs, PLAYER)
             seen == compute_fov(player.x, player.y, player.fov_radius)
         IN  [map |-> explore_tiles(light_tiles(m, objs), seen), fov |-> seen]
    ELSE [map |-> m, fov |-> f]

(* the radius grows without a cap *)
adjust_fov_radius_uncapped(player, m) ==
    IF m[player.x][player.y].lit
    THEN [player EXCEPT !.fov_radius = TORCH_RADIUS_IN_LIT_AREA]
    ELSE [player EXCEPT !.fov_radius = @ + 1]

(* the player's eyes adjust on a turn: the lit-area radius on a lit tile,
   one more in the dark up to the dark-area cap *)
adjust_fov_radius(player, m) ==
    IF m[player.x][player.y].lit
    THEN [player EXCEPT !.fov_radius = TORCH_RADIUS_IN_LIT_AREA]
    ELSE IF player.fov_radius < TORCH_RADIUS_IN_DARK_AREA
    THEN [player EXCEPT !.fov_radius = @ + 1]
    ELSE player

(* the level: two rooms make_map accepted, joined by a tunnel, the player
   at the center of the first and the stairs at the center of the second;
   place_objects left a torch in none, one or both of the rooms and no
   monster *)
VisRooms == <<Rect_new(0, 0, 2, 4), Rect_new(3, 0, 2, 4)>>

VisMap ==
    connect(center(VisRooms[1]), center(VisRooms[2]), TRUE,
            create_room(VisRooms[2], create_room(VisRooms[1], AllWalls)))

VisTorches == { <<>>, <<NewTorch(1, 1)>>, <<NewTorch(4, 3)>>,
                <<NewTorch(1, 1), NewTorch(4, 3)>> }

VisInit ==
    /\ \E torches \in VisTorches :
       \E radius \in TORCH_RADIUS_IN_LIT_AREA .. TORCH_RADIUS_IN_DARK_AREA :
          objects = <<[set_pos(NewPlayer, center(VisRooms[1])[1],
                               center(VisRooms[1])[2])
                          EXCEPT !.fov_radius = radius]>>
                    \o torches
                    \o <<NewStairs(center(VisRooms[2])[1], center(VisRooms[2])[2])>>
    /\ inventory = <<>>
    /\ map = VisMap
    /\ fov = {}
    /\ previous_player_position = <<-1, -1>>
    /\ pc = "render"
    /\ player_action = "DidntTakeTurn"
    /\ id = 0
    /\ rooms = VisRooms
    /\ attempt = MAX_ROOMS
    /\ dungeon_level = 1
    /\ last = NoOp

(* the top of the loop: fov_recompute and render_all *)
VisRender ==
    /\ pc = "render"
    /\ LET fov_recompute == previous_player_position # pos(Obj(objects, PLAYER))
           r == render_all_game(objects, map, fov, fov_recompute)
       IN  /\ map' = r.map
           /\ fov' = r.fov
           /\ last' = [NoOp EXCEPT !.op = "render_all",
                                   !.result = IF fov_recompute THEN "recompute"
                                              ELSE "kept"]
    /\ pc' = "keys"
    /\ UNCHANGED <<objects, inventory, previous_player_position, player_action,
                   id, rooms, attempt, dungeon_level>>

(* handle_keys, Up / Down / Left / Right: the player moves or is blocked,
   and the turn is taken *)
VisKeyMove ==
    /\ pc = "keys"
    /\ previous_player_position' = pos(Obj(objects, PLAYER))
    /\ \E d \in MoveKeys :
         LET r == player_move_or_attack(d[1], d[2], map, objects)
         IN  /\ objects' = [r.objects EXCEPT ![PLAYER + 1] =
                               adjust_fov_radius(@, map)]
             /\ last' = [NoOp EXCEPT !.op = "player_move_or_attack",
                                     !.who = PLAYER, !.msgs = r.msgs]
    /\ player_action' = "TookTurn"
    /\ pc' = "render"
    /\ UNCHANGED <<inventory, map, fov, id, rooms, attempt, dungeon_level>>

(* handle_keys, any other key: no turn is taken *)
VisKeyOther ==
    /\ pc = "keys"
    /\ previous_player_position' = pos(Obj(objects, PLAYER))
    /\ player_action' = "DidntTakeTurn"
    /\ last' = [NoOp EXCEPT !.op = "other_key"]
    /\ pc' = "render"
    /\ UNCHANGED <<objects, inventory, map, fov, id, rooms, attempt,
                   dungeon_level>>

VisNext == VisRender \/ VisKeyMove \/ VisKeyOther

SpecVis == VisInit /\ [][VisNext]_vars

-----------------------------------------------------------------------------
(* The two movement functions of helper.rs on their own: the player and an
   orc in one room as large as the map, each anywhere on its floor;
   player_move_or_attack is applied to every displacement with components
   in -1 .. 1, move_towards to every target tile of the map.  *)

StepRoom == Rect_new(0, 0, MAP_WIDTH - 1, MAP_HEIGHT - 1)

Displacements == (-1 .. 1) \X (-1 .. 1)

StepInit ==
    /\ \E pp \in Spots(StepRoom) :
       \E op \in Spots(StepRoom) \ {pp} :
          objects = <<set_pos(NewPlayer, pp[1], pp[2]),
                      WithHp(NewOrc(op[1], op[2]), 5)>>
    /\ inventory = <<>>
    /\ map = create_room(StepRoom, AllWalls)
    /\ fov = {}
    /\ previous_player_position = <<-1, -1>>
    /\ pc = "step"
    /\ player_action = "DidntTakeTurn"
    /\ id = 0
    /\ rooms = <<StepRoom>>
    /\ attempt = MAX_ROOMS
    /\ dungeon_level = 1
    /\ last = NoOp

(* player_move_or_attack(dx, dy); the failed assertion of mut_two ends
   the program *)
StepPlayer ==
    /\ pc = "step"
    /\ \E d \in Displacements :
         LET r == player_move_or_attack(d[1], d[2], map, objects)
         IN  /\ objects' = r.objects
             /\ pc' = IF r.panic THEN "panic" ELSE "step"
             /\ last' = [NoOp EXCEPT !.op = "player_move_or_attack",
                                     !.who = PLAYER, !.msgs = r.msgs,
                                     !.result = IF r.panic THEN "panic"
                                                ELSE "returned"]
    /\ UNCHANGED <<inventory, map, fov, previous_player_position,
                   player_action, id, rooms, attempt, dungeon_level>>

(* move_towards(i, target_x, target_y) for an object with an Ai; the
   target and whether the object moved are kept for the record *)
StepTowards ==
    /\ pc = "step"
    /\ \E i \in Ids(objects) : \E t \in Xs \X Ys :
         /\ is_some(Obj(objects, i).ai)
         /\ objects' = move_towards(i, t[1], t[2], map, objects)
         /\ last' = [NoOp EXCEPT !.op = "move_towards", !.who = i,
                                 !.target = Some(t),
                                 !.result = IF objects' = objects
                                            THEN "stayed" ELSE "moved"]
    /\ UNCHANGED <<inventory, map, fov, previous_player_position, pc,
                   player_action, id, rooms, attempt, dungeon_level>>

StepNext == StepPlayer \/ StepTowards

SpecStep == StepInit /\ [][StepNext]_vars

-----------------------------------------------------------------------------
(* Properties of the game (Spec).                                          *)

Player == Obj(objects, PLAYER)
HasAi(o) == is_some(o.ai)
Depth(o) == IF is_some(o.ai) THEN Len(unwrap(o.ai)) ELSE 0

(* the step is a confuse cast that confused objects[i] *)
ConfuseCastOn(i) ==
    /\ last'.op = "Confuse" /\ last'.result = "UsedUp"
    /\ last'.target = Some(i)

(* C1, as claimed: confuse casts do not stack wrappers: the AI of every
   object is Basic or a Confused whose previous_ai is not Confused *)
C1_NestingAtMostOne == \A i \in Ids(objects) : Depth(Obj(objects, i)) <= 1

(* C1, amended: a confuse cast wraps the AI the monster holds at that
   moment, Confused or not, in a fresh Confused of CONFUSE_NUM_TURNS turns,
   so it adds one wrapper; no other step adds a wrapper to any object *)
C1_CastWrapsCurrentAi ==
    [][\A i \in Ids(objects) :
          IF ConfuseCastOn(i)
          THEN Obj(objects', i).ai =
                 Some(Confused(IF HasAi(Obj(objects, i))
                               THEN unwrap(Obj(objects, i).ai) ELSE Basic,
                               CONFUSE_NUM_TURNS))
          ELSE Depth(Obj(objects', i)) <= Depth(Obj(objects, i))]_vars

(* C1 witness: a confuse cast has just hit a monster that was Confused *)
C1_Witness ==
    /\ last.op = "Confuse" /\ last.result = "UsedUp"
    /\ Depth(Obj(objects, unwrap(last.target))) = 2

(* what an object with an Ai does: where it is, its AI state, and the
   Fighter of the player it may attack *)
Acted(i) ==
    \/ pos(Obj(objects', i)) # pos(Obj(objects, i))
    \/ Obj(objects', i).ai # Obj(objects, i).ai
    \/ Obj(objects', PLAYER).fighter # Obj(objects, PLAYER).fighter

(* C2, as claimed: once the player is dead no object with an Ai moves,
   attacks or changes its AI state, those later in the same AI phase
   included *)
C2_NoAiAfterDeath ==
    [][~Player.alive =>
         \A i \in Ids(objects) : HasAi(Obj(objects, i)) => ~Acted(i)]_vars

(* C2, amended: once the player is dead no AI phase starts any more and the
   player is never attacked again; the objects later in index order in the
   AI phase in which the player died still take their turn, and outside
   that phase nothing changes *)
C2_NoAiPhaseAfterDeath ==
    [][/\ (pc # "ai" /\ ~Obj(objects', PLAYER).alive) => pc' # "ai"
       /\ ~Player.alive => Obj(objects', PLAYER) = Player
       /\ (~Player.alive /\ pc # "ai") => objects' = objects]_vars

(* C2 witness: the player is dead and an object later in the AI phase has
   taken its turn without attacking *)
C2_Witness ==
    /\ ~Player.alive
    /\ pc = "ai"
    /\ last.op = "ai_take_turn" /\ last.msgs = <<>>

(* C3: the AI phase is entered only by an action classified TookTurn with
   the player alive, and lasts under that classification; after
   DidntTakeTurn the loop awaits the next key, and Exit ends the loop, after
   which nothing happens *)
C3_AiPhaseOnlyAfterTookTurn ==
    /\ [](pc = "ai" => player_action = "TookTurn")
    /\ [][/\ (pc = "input" /\ pc' = "ai") => Obj(objects', PLAYER).alive
          /\ (pc = "input" /\ player_action' = "DidntTakeTurn") => pc' = "input"
          /\ (pc = "input" /\ player_action' = "Exit") => pc' = "exit"
          /\ pc # "ai" => \A i \in Ids(objects) :
                             (HasAi(Obj(objects, i)) /\ last'.op \notin
                                {"Confuse", "Fireball", "Lightning",
                                 "player_move_or_attack"})
                             => Obj(objects', i) = Obj(objects, i)
          /\ pc # "exit"]_vars

(* C3 witness: a key that took no turn was handled with monsters around,
   and the loop awaits the next key *)
C3_Witness ==
    /\ last.op = "other_key" /\ player_action = "DidntTakeTurn" /\ pc = "input"
    /\ Player.alive
    /\ \E i \in Ids(objects) : HasAi(Obj(objects, i))

(* the step is the AI turn of objects[i] *)
AiTurnOf(i) == pc = "ai" /\ id = i /\ HasAi(Obj(objects, i))

(* C4: a Confused{p, n} monster becomes Confused{p, n - 1} on its AI turn
   while n >= 0 and p once n < 0; so t turns after a cast wrapped p it is
   Confused{p, CONFUSE_NUM_TURNS - t} for t <= CONFUSE_NUM_TURNS + 1 and
   exactly p at t = CONFUSE_NUM_TURNS + 2 *)
C4_ConfusionCountsDown ==
    /\ [](\A i \in Ids(objects) :
            LET o == Obj(objects, i)
            IN  (o.since >= 0 /\ is_some(o.fighter)) =>
                  /\ o.since <= CONFUSE_NUM_TURNS + 1 =>
                       o.ai = Some(Confused(unwrap(o.wrapped),
                                            CONFUSE_NUM_TURNS - o.since))
                  /\ o.since = CONFUSE_NUM_TURNS + 2 => o.ai = o.wrapped)
    /\ [][\A i \in Ids(objects) :
            (AiTurnOf(i) /\ IsConfused(unwrap(Obj(objects, i).ai))) =>
               LET ai == unwrap(Obj(objects, i).ai)
               IN  Obj(objects', i).ai =
                     Some(IF num_turns_of(ai) >= 0
                          THEN <<num_turns_of(ai) - 1>> \o previous_ai_of(ai)
                          ELSE previous_ai_of(ai))]_vars

(* C4 witness: CONFUSE_NUM_TURNS + 2 turns after a cast on a Basic monster
   it is plain Basic again *)
C4_Witness ==
    \E i \in Ids(objects) :
        /\ Obj(objects, i).since = CONFUSE_NUM_TURNS + 2
        /\ Obj(objects, i).wrapped = Some(Basic)
        /\ Obj(objects, i).ai = Some(Basic)
        /\ last.op = "ai_take_turn" /\ last.who = i

(* the rewards of the objects other than the player whose death callback
   runs in the step, summed over the indices below n *)
RECURSIVE RewardsOfTheDying(_)
RewardsOfTheDying(n) ==
    IF n = 0 THEN 0
    ELSE RewardsOfTheDying(n - 1)
         + (IF (n - 1) # PLAYER
               /\ Obj(objects', n - 1).deaths > Obj(objects, n - 1).deaths
            THEN unwrap(Obj(objects, n - 1).fighter).xp ELSE 0)

(* C7: the death callback of an object runs at most once, and only in a
   step in which the object was alive with hp > 0 and its hp dropped to
   <= 0; the xp of the player grows by no more than the rewards of the
   other objects dying in the step, so no reward is handed out twice *)
C7_DeathRunsOnce ==
    /\ [](\A i \in Ids(objects) : Obj(objects, i).deaths <= 1)
    /\ [][/\ \A i \in Ids(objects) :
               Obj(objects', i).deaths > Obj(objects, i).deaths =>
                  /\ Obj(objects, i).alive
                  /\ unwrap(Obj(objects, i).fighter).hp > 0
                  /\ ~Obj(objects', i).alive
                  /\ is_some(Obj(objects', i).fighter) =>
                        unwrap(Obj(objects', i).fighter).hp <= 0
          /\ unwrap(Obj(objects', PLAYER).fighter).xp
               >= unwrap(Player.fighter).xp
          /\ unwrap(Obj(objects', PLAYER).fighter).xp
               <= unwrap(Player.fighter).xp + RewardsOfTheDying(Len(objects))]_vars

Corpses == {i \in Ids(objects) \ {PLAYER} : Obj(objects, i).deaths >= 1}

(* C7 witness: the lightning scroll killed a monster, the player was paid
   its reward, and the fireball then burned the tile of the corpse without
   a second death or reward *)
C7_Witness ==
    /\ inventory = <<>>
    /\ last.op = "Fireball" /\ last.result = "UsedUp"
    /\ \E c \in Corpses :
          /\ Corpses = {c}
          /\ Obj(objects, c).deaths = 1
          /\ distance2(Obj(objects, c), unwrap(last.target)[1],
                       unwrap(last.target)[2])
               <= FIREBALL_RADIUS * FIREBALL_RADIUS
          /\ unwrap(Player.fighter).xp \in {35, 100}

(* C10: a monster whose death callback ran does not block, has no Fighter
   and no Ai; it takes no AI turn, does not make its tile blocked, and is
   no target of player_move_or_attack, closest_monster or target_monster *)
C10_CorpseIsInert ==
    \A i \in Corpses :
        LET o == Obj(objects, i)
        IN  /\ ~o.blocks /\ o.fighter = None /\ o.ai = None
            /\ ~(last.op = "ai_take_turn" /\ last.who = i)
            /\ is_blocked(o.x, o.y, map, objects) =>
                 \/ map[o.x][o.y].blocked
                 \/ \E j \in Ids(objects) \ {i} :
                       Obj(objects, j).blocks /\ pos(Obj(objects, j)) = pos(o)
            /\ \A t \in Xs \X Ys : i \notin AttackTargets(t[1], t[2], objects)
            /\ \A r \in 0 .. (MAP_WIDTH + MAP_HEIGHT) :
                 closest_monster(r, objects, fov) # Some(i)
            /\ Some(i) \notin target_monster(objects, fov, None)

(* C10 witness: the player stands on the tile of a corpse, in its FOV,
   after moving there *)
C10_Witness ==
    /\ last.op = "player_move_or_attack"
    /\ \E i \in Corpses :
          /\ pos(Obj(objects, i)) = pos(Player)
          /\ pos(Obj(objects, i)) \in fov

-----------------------------------------------------------------------------
(* Properties of the generator (SpecMap).                                  *)

(* the tiles of a rectangle, border included *)
TilesOf(r) == {t \in Xs \X Ys : t[1] >= r.x1 /\ t[1] <= r.x2
                                /\ t[2] >= r.y1 /\ t[2] <= r.y2}

(* C5: no tile lies in the rectangles of two accepted rooms *)
C5_RoomsDisjoint ==
    \A k \in 1 .. Len(rooms), l \in 1 .. Len(rooms) :
        k # l => TilesOf(rooms[k]) \cap TilesOf(rooms[l]) = {}

(* C5 witness: two rooms were accepted whose walls are next to each other,
   and a third draw was rejected *)
C5_Witness ==
    /\ Len(rooms) = 2
    /\ rooms[1].x2 + 1 = rooms[2].x1 \/ rooms[2].x2 + 1 = rooms[1].x1
    /\ last.op = "room_rejected"

Open(t) == ~map[t[1]][t[2]].blocked
Adjacent(s, t) == Dist2(s[1], s[2], t[1], t[2]) = 1

(* the open tiles a walk over open tiles reaches from those in seen *)
RECURSIVE Flood(_)
Flood(seen) ==
    LET more == {t \in Xs \X Ys :
                    Open(t) /\ t \notin seen /\ \E u \in seen : Adjacent(u, t)}
    IN  IF more = {} THEN seen ELSE Flood(seen \cup more)

Stairs == {i \in Ids(objects) : Obj(objects, i).name = <<"stairs">>}

(* C6: in a finished level the stairs are on a tile that a walk over
   unblocked tiles reaches from the tile of the player *)
C6_StairsReachable ==
    pc = "map_done" =>
        /\ Open(pos(Player))
        /\ \A i \in Stairs : pos(Obj(objects, i)) \in Flood({pos(Player)})

(* C6 witness: a finished level of two rooms, the stairs in the second *)
C6_Witness ==
    /\ pc = "map_done" /\ Len(rooms) = 2
    /\ \E i \in Stairs : /\ pos(Obj(objects, i)) # pos(Player)
                         /\ pos(Obj(objects, i)) = center(rooms[2])
                         /\ pos(Obj(objects, i))[2] # pos(Player)[2]

-----------------------------------------------------------------------------
(* Properties of the combat harness (SpecCombat).                          *)

Hp(o) == unwrap(o.fighter).hp

(* C8: take_damage with an amount <= 0 leaves the hp of the object as it
   was, whatever the object and its hp *)
C8_NonPositiveDamageKeepsHp ==
    [][(last'.op = "take_damage" /\ last'.amount <= 0) =>
         LET before == Obj(objects, last'.who)
             after == Obj(objects', last'.who)
         IN  is_some(before.fighter) =>
               is_some(after.fighter) /\ Hp(after) = Hp(before)]_vars

(* C8 witness: take_damage with a negative amount ran on an object with a
   Fighter *)
C8_Witness ==
    /\ last.op = "take_damage" /\ last.amount < 0
    /\ is_some(Obj(objects, last.who).fighter)

(* C9: attack takes exactly max(0, power - defense) from the hp of the
   defender (a monster it kills loses its Fighter); with power <= defense
   the defender is left as it was and the message is the no-effect one;
   the attacker is never changed *)
C9_AttackDamage ==
    [][last'.op = "attack" =>
         LET a == Obj(objects, last'.who)
             d == Obj(objects, unwrap(last'.target))
             after == Obj(objects', unwrap(last'.target))
             pw == IF is_some(a.fighter) THEN unwrap(a.fighter).base_power ELSE 0
             df == IF is_some(d.fighter) THEN unwrap(d.fighter).base_defense ELSE 0
             damage == Max(0, pw - df)
         IN  /\ Obj(objects', last'.who) = a
             /\ damage = 0 =>
                  after = d /\ last'.msgs = <<"attacks but it has no effect">>
             /\ (damage > 0 /\ is_some(d.fighter)) =>
                  /\ last'.msgs = <<"attacks for hit points">>
                  /\ IF is_some(after.fighter)
                     THEN Hp(after) = Hp(d) - damage
                     ELSE unwrap(d.fighter).on_death = "Monster"
                          /\ Hp(d) - damage <= 0]_vars

(* C9 witness: power 2 against defense 5 had no effect, and the defender
   still has its hit points *)
C9_Witness ==
    /\ last.op = "attack"
    /\ last.msgs = <<"attacks but it has no effect">>
    /\ unwrap(Obj(objects, last.who).fighter).base_power = 2
    /\ unwrap(Obj(objects, unwrap(last.target)).fighter).base_defense = 5
    /\ Hp(Obj(objects, unwrap(last.target))) = MaxHp

-----------------------------------------------------------------------------
(* Properties of the object list and the inventory (SpecWorld, SpecInv).   *)

(* C11: the object at index 0 is the player, the only one in the list and
   not in the inventory; it has a Fighter and no Ai *)
C11_PlayerAtIndexZero ==
    /\ Len(objects) >= 1
    /\ Player.name = <<"player">>
    /\ is_some(Player.fighter)
    /\ Player.ai = None
    /\ \A i \in Ids(objects) \ {PLAYER} : Obj(objects, i).name # <<"player">>
    /\ \A k \in 1 .. Len(inventory) : inventory[k].name # <<"player">>

(* C11 witness: an item that was not the last of the list was picked up, so
   swap_remove moved the last object into its place, and a confuse scroll
   was then used on the orc *)
C11_Witness ==
    /\ last.op = "Confuse" /\ last.result = "UsedUp"
    /\ IsConfused(unwrap(Obj(objects, unwrap(last.target)).ai))
    /\ Len(objects) >= 4
    /\ Obj(objects, 2).uid > Obj(objects, 3).uid

(* C12: a pick-up with the inventory at its capacity changes neither the
   inventory nor the object list, where the item stays at its position,
   and logs the inventory-full message *)
C12_FullInventoryRejects ==
    [][(last'.op = "pick_item_up" /\ Len(inventory) >= MaxInventory) =>
         /\ inventory' = inventory
         /\ objects' = objects
         /\ last'.msgs = <<"Your inventory is full">>]_vars

(* C12 witness: a pick-up was refused with the inventory at its capacity, and
   the item is still at the feet of the player *)
C12_Witness ==
    /\ last.op = "pick_item_up"
    /\ last.msgs = <<"Your inventory is full">>
    /\ Len(inventory) = MaxInventory
    /\ last.who \in ItemsHere(objects)

(* C13: the inventory never holds more items than its capacity *)
C13_InventoryBounded == Len(inventory) <= MaxInventory

(* C13 witness: a pick-up filled the inventory to its capacity after one of
   the items had been used up, so that no item is left on the floor *)
C13_Witness ==
    /\ last.op = "pick_item_up"
    /\ last.msgs = <<"You picked up">>
    /\ Len(inventory) = MaxInventory
    /\ Len(objects) = 2

(* the history numbers of the items of a list, and the number of its items *)
ItemUids(seq) == {seq[k].uid : k \in {j \in 1 .. Len(seq) : is_some(seq[j].item)}}
ItemCount(seq) == Cardinality({k \in 1 .. Len(seq) : is_some(seq[k].item)})
Count(seq, o) == Cardinality({k \in 1 .. Len(seq) : seq[k] = o})

(* C14: no item is in the object list and in the inventory or twice in
   either; a pick-up takes exactly the chosen object out of the list and
   appends it to the inventory, a drop takes exactly the chosen item out of
   the inventory and appends it to the list at the position of the player,
   a toggle leaves the list alone and every item in its slot of the
   inventory; each of them keeps the set of the items of both *)
C14_ItemsMoveBetweenLists ==
    /\ [](/\ ItemUids(objects) \cap ItemUids(inventory) = {}
          /\ Cardinality(ItemUids(objects)) = ItemCount(objects)
          /\ Cardinality(ItemUids(inventory)) = Len(inventory))
    /\ [][/\ (last'.op = "pick_item_up" /\ last'.msgs = <<"You picked up">>) =>
               LET item == Obj(objects, last'.who)
               IN  /\ Len(inventory') = Len(inventory) + 1
                   /\ SubSeq(inventory', 1, Len(inventory)) = inventory
                   /\ inventory'[Len(inventory')] \in {item, equip(item)}
                   /\ Len(objects') = Len(objects) - 1
                   /\ \A k \in 1 .. Len(objects) :
                         Count(objects', objects[k]) =
                            Count(objects, objects[k])
                            - (IF objects[k] = item THEN 1 ELSE 0)
          /\ last'.op = "drop_item" =>
               LET item == inventory[last'.who + 1]
                   there == set_pos(item, Player.x, Player.y)
               IN  /\ inventory' = Remove(inventory, last'.who)
                   /\ Len(objects') = Len(objects) + 1
                   /\ SubSeq(objects', 1, Len(objects)) = objects
                   /\ objects'[Len(objects')] \in {there, dequip(there)}
          /\ last'.op \in {"Sword", "Shield"} =>
               /\ objects' = objects
               /\ Len(inventory') = Len(inventory)
               /\ \A k \in 1 .. Len(inventory) :
                     inventory'[k].uid = inventory[k].uid
          /\ last'.op \in {"pick_item_up", "drop_item", "Sword", "Shield"} =>
               ItemUids(objects') \cup ItemUids(inventory')
                 = ItemUids(objects) \cup ItemUids(inventory)]_vars

(* C14 witness: the dagger was picked up, which equipped it, and dropped
   again, which took it off; the sword, picked up after it, is in the
   inventory *)
C14_Witness ==
    /\ last.op = "drop_item"
    /\ objects[Len(objects)].name = <<"dagger">>
    /\ ~IsEquipped(objects[Len(objects)])
    /\ Len(inventory) >= 1
    /\ inventory[1].name = <<"Sword">> /\ IsEquipped(inventory[1])

ItemKinds == {"Heal", "Lightning", "Confuse", "Fireball", "Sword", "Shield"}

(* C15: use_item takes the used item out of the inventory if its effect
   returned UsedUp, and otherwise leaves every item in its slot; when the
   target provider of a confuse or fireball scroll answers with a
   cancellation the result is Cancelled, the inventory and the objects are
   as they were, and a message was logged *)
C15_UseItemConsumesIffUsedUp ==
    [][last'.op \in ItemKinds =>
         /\ last'.result = "UsedUp" => inventory' = Remove(inventory, last'.who)
         /\ last'.result # "UsedUp" =>
               /\ Len(inventory') = Len(inventory)
               /\ \A k \in 1 .. Len(inventory) :
                     inventory'[k].uid = inventory[k].uid
         /\ (last'.op \in {"Confuse", "Fireball"} /\ last'.target = None) =>
               /\ last'.result = "Cancelled"
               /\ inventory' = inventory
               /\ objects' = objects
               /\ last'.msgs # <<>>]_vars

(* C15 witness: a fireball was cancelled by the target provider with the orc
   in view, and the scroll is still in its slot *)
C15_Witness ==
    /\ last.op = "Fireball" /\ last.target = None /\ last.result = "Cancelled"
    /\ inventory[last.who + 1].item = Some("Fireball")
    /\ Len(objects) >= 2
    /\ is_some(Obj(objects, 1).fighter) /\ pos(Obj(objects, 1)) \in fov

(* the monsters the lightning scroll is said to reach: in the FOV of the
   player and at a distance of at most LIGHTNING_RANGE *)
MonstersWithinRange ==
    {i \in Ids(objects) \ {PLAYER} :
        /\ is_some(Obj(objects, i).fighter) /\ is_some(Obj(objects, i).ai)
        /\ pos(Obj(objects, i)) \in fov
        /\ distance_to2(Player, Obj(objects, i))
             <= LIGHTNING_RANGE * LIGHTNING_RANGE}

(* C16: a heal potion used with the hp of the player at max_hp, and a
   lightning scroll used with no monster within LIGHTNING_RANGE in the FOV,
   return Cancelled, log a message, keep the item and change no hp or xp *)
C16_SoftFailuresAbort ==
    [][(\/ last'.op = "Heal" /\ Hp(Player) = max_hp(Player, inventory)
        \/ last'.op = "Lightning" /\ MonstersWithinRange = {}) =>
         /\ last'.result = "Cancelled"
         /\ last'.msgs # <<>>
         /\ inventory' = inventory
         /\ Len(objects') = Len(objects)
         /\ \A i \in Ids(objects) :
               Obj(objects', i).fighter = Obj(objects, i).fighter]_vars

-----------------------------------------------------------------------------
(* Properties of from_dungeon_level (SpecTable).                           *)

(* the entries of a table whose level is at or below the given one *)
Matching(table, level) == {k \in 1 .. Len(table) : table[k].level <= level}

(* C17: from_dungeon_level returns the value of the last entry whose level
   is at or below the given level, and 0 if there is no such entry *)
C17_LastEntryAtOrBelow ==
    last.op = "from_dungeon_level" =>
        LET table == unwrap(last.target)
            matching == Matching(table, dungeon_level)
        IN  last.amount =
               IF matching = {} THEN 0
               ELSE table[CHOOSE k \in matching :
                             \A j \in matching : j <= k].value

(* C17 witness: the table [(1,2),(4,3),(6,5)] at level 5 gave 3 *)
C17_Witness ==
    /\ last.op = "from_dungeon_level"
    /\ last.target = Some(<<Transition(1, 2), Transition(4, 3),
                             Transition(6, 5)>>)
    /\ dungeon_level = 5
    /\ last.amount = 3

-----------------------------------------------------------------------------
(* Properties of level_up (SpecLevel).                                     *)

Xp(o) == unwrap(o.fighter).xp
Stats(o) == <<unwrap(o.fighter).base_max_hp, unwrap(o.fighter).hp,
              unwrap(o.fighter).base_power, unwrap(o.fighter).base_defense>>

(* C18: with xp below LEVEL_UP_BASE + level * LEVEL_UP_FACTOR level_up
   changes nothing; otherwise it raises the level by exactly 1 and, once
   the choice is made, takes the threshold of the level before the raise
   from the xp, which stay at or above 0 *)
C18_LevelUpKeepsOverflow ==
    [][/\ last'.op = "level_up" =>
            LET threshold == LEVEL_UP_BASE + Player.level * LEVEL_UP_FACTOR
            IN  IF Xp(Player) < threshold
                THEN objects' = objects /\ pc' = "level_up"
                ELSE /\ Obj(objects', PLAYER).level = Player.level + 1
                     /\ Xp(Obj(objects', PLAYER)) = Xp(Player)
                     /\ Stats(Obj(objects', PLAYER)) = Stats(Player)
                     /\ pc' = "menu"
       /\ last'.op = "level_up_choice" =>
            LET threshold == LEVEL_UP_BASE + (Player.level - 1) * LEVEL_UP_FACTOR
            IN  /\ Obj(objects', PLAYER).level = Player.level
                /\ Xp(Obj(objects', PLAYER)) = Xp(Player) - threshold
                /\ Xp(Obj(objects', PLAYER)) >= 0
       /\ last'.op = "menu" => objects' = objects]_vars

(* C18 witness: with the threshold at 100 the player went from level 1 with
   130 xp to level 2 with 30 xp *)
C18_Witness ==
    /\ last.op = "level_up_choice" /\ last.amount = 100
    /\ Player.level = 2
    /\ Xp(Player) = 30

(* C19: the menu of a level-up is left only with a choice, and the choice
   raises base_max_hp and hp by 20, or base_power by 1, or base_defense
   by 1, as chosen, and no other stat; a key that is no choice changes
   nothing and the menu is shown again *)
C19_ExactlyOneIncrease ==
    [][pc = "menu" =>
         LET before == Stats(Player)
             after == Stats(Obj(objects', PLAYER))
         IN  \/ /\ last'.op = "menu" /\ pc' = "menu" /\ objects' = objects
             \/ /\ last'.op = "level_up_choice" /\ pc' = "level_up"
                /\ \/ /\ last'.target = Some(0)
                      /\ after = <<before[1] + 20, before[2] + 20,
                                   before[3], before[4]>>
                   \/ /\ last'.target = Some(1)
                      /\ after = <<before[1], before[2], before[3] + 1,
                                   before[4]>>
                   \/ /\ last'.target = Some(2)
                      /\ after = <<before[1], before[2], before[3],
                                   before[4] + 1>>]_vars

(* C19 witness: after keys that were no choice the player chose strength,
   which is now 6 with the other stats as they were *)
C19_Witness ==
    /\ last.op = "level_up_choice" /\ last.target = Some(1)
    /\ attempt = MaxPrompts
    /\ Stats(Player) = <<30, 12, 6, 2>>

-----------------------------------------------------------------------------
(* Properties of the equipment (SpecInv).                                  *)

(* the power bonuses of the equipped items among the first n of a list *)
RECURSIVE EquippedPowerBonus(_, _)
EquippedPowerBonus(inv, n) ==
    IF n = 0 THEN 0
    ELSE EquippedPowerBonus(inv, n - 1)
         + (IF IsEquipped(inv[n]) THEN unwrap(inv[n].equipment).power_bonus
            ELSE 0)

Worn(inv) == {inv[k].uid : k \in {j \in 1 .. Len(inv) : IsEquipped(inv[j])}}

(* C20: the power of the player is base_power plus the power bonuses of the
   equipped items of the inventory, whatever the order they were put on
   in (5 more with the dagger and the sword); equip and dequip done twice
   are equip and dequip done once; a toggle changes the equipped flag of
   its item only and the power by the bonus of that item, a drop takes the
   bonus of the dropped item off, and base_power is never changed *)
C20_BonusesAddUp ==
    /\ [](/\ power(Player, inventory)
               = unwrap(Player.fighter).base_power
                 + EquippedPowerBonus(inventory, Len(inventory))
          /\ \A k \in 1 .. Len(inventory) :
                /\ equip(equip(inventory[k])) = equip(inventory[k])
                /\ dequip(dequip(inventory[k])) = dequip(inventory[k])
          /\ {"dagger", "Sword"}
                \subseteq {inventory[k].name[1] :
                              k \in {j \in 1 .. Len(inventory) :
                                        IsEquipped(inventory[j])}}
                => power(Player, inventory)
                     = unwrap(Player.fighter).base_power + 5)
    /\ [][/\ unwrap(Obj(objects', PLAYER).fighter).base_power
               = unwrap(Player.fighter).base_power
          /\ last'.op \in {"Sword", "Shield"} =>
               LET item == inventory[last'.who + 1]
                   bonus == unwrap(item.equipment).power_bonus
               IN  IF IsEquipped(item)
                   THEN /\ Worn(inventory') = Worn(inventory) \ {item.uid}
                        /\ power(Obj(objects', PLAYER), inventory')
                             = power(Player, inventory) - bonus
                   ELSE /\ Worn(inventory') = Worn(inventory) \cup {item.uid}
                        /\ power(Obj(objects', PLAYER), inventory')
                             = power(Player, inventory) + bonus
          /\ last'.op = "drop_item" =>
               LET item == inventory[last'.who + 1]
               IN  /\ Worn(inventory') = Worn(inventory) \ {item.uid}
                   /\ power(Obj(objects', PLAYER), inventory')
                        = power(Player, inventory)
                          - (IF IsEquipped(item)
                             THEN unwrap(item.equipment).power_bonus ELSE 0)]_vars

(* C20 witness: the sword was put on before the dagger, the reverse of the
   order of the pick-ups; the power of the player is 5 + 5 *)
C20_Witness ==
    /\ last.op = "Sword" /\ last.msgs = <<"equip">>
    /\ inventory[last.who + 1].name = <<"dagger">>
    /\ \E k \in 1 .. Len(inventory) :
          inventory[k].name = <<"Sword">> /\ IsEquipped(inventory[k])
    /\ power(Player, inventory) = 10

-----------------------------------------------------------------------------
(* Properties of visibility and lighting (SpecVis).                       *)

Tiles == Xs \X Ys
Lit(m) == {t \in Tiles : m[t[1]][t[2]].lit}
Explored(m) == {t \in Tiles : m[t[1]][t[2]].explored}

(* an object with an Emitter has the tile within its radius *)
EmitterCovers(t) ==
    \E i \in Ids(objects) :
       /\ is_some(Obj(objects, i).emitter)
       /\ Dist2(Obj(objects, i).x, Obj(objects, i).y, t[1], t[2])
            <= unwrap(Obj(objects, i).emitter).radius
               * unwrap(Obj(objects, i).emitter).radius

Recomputed == last.op = "render_all" /\ last.result = "recompute"

(* C21: no step takes the explored flag of a tile away, and a visibility
   recompute leaves every tile explored that is in the player's FOV or
   lit *)
C21_ExploredIsMonotone ==
    [][/\ Explored(map) \subseteq Explored(map')
       /\ (last'.op = "render_all" /\ last'.result = "recompute")
            => (fov' \cup Lit(map')) \subseteq Explored(map')]_vars

(* C21 witness: after a recompute a tile is explored that is neither in
   the player's FOV nor covered by an emitter: the player left it *)
C21_Witness ==
    /\ Recomputed
    /\ \E t \in Explored(map) :
          t \notin fov /\ t \notin Lit(map) /\ ~EmitterCovers(t)

(* C22: once visibility was computed, a tile is lit exactly when an object
   that has an Emitter now has the tile in its FOV *)
C22_LitIffEmitterCovers ==
    last.op # "none" => \A t \in Tiles : (t \in Lit(map)) <=> EmitterCovers(t)

(* C22 witness: with two torches, after a recompute, one tile is lit by
   the first torch only and another tile is lit by none *)
C22_Witness ==
    /\ Recomputed
    /\ Cardinality({i \in Ids(objects) : is_some(Obj(objects, i).emitter)}) = 2
    /\ \E t \in Lit(map) : t \notin emitter_fovs(objects)[2]
    /\ \E t \in Tiles : t \notin Lit(map)

(* C23: render_all recomputes only if the player's position differs from
   previous_player_position; otherwise it leaves the FOV and the flags of
   every tile as they are, and so does handle_keys *)
C23_RecomputeOnlyAfterMove ==
    [][/\ (last'.op = "render_all" /\ last'.result = "recompute")
            => previous_player_position # pos(Player)
       /\ (pc = "render" /\ previous_player_position = pos(Player))
            => (map' = map /\ fov' = fov)
       /\ pc = "keys" => (map' = map /\ fov' = fov)]_vars

(* C23 witness: the player was blocked in the dark and the radius grew, so
   a recompute would have changed the FOV, and render_all kept it *)
C23_Witness ==
    /\ last.op = "render_all" /\ last.result = "kept"
    /\ fov # compute_fov(Player.x, Player.y, Player.fov_radius)

(* C30: the player's FOV radius lies between the lit-area radius and the
   dark-area cap; a turn sets it to the lit-area radius if the player
   stands on a lit tile and otherwise adds 1 to it up to the cap; nothing
   else changes it *)
C30_FovRadiusAdjusts ==
    /\ [](/\ Player.fov_radius >= TORCH_RADIUS_IN_LIT_AREA
          /\ Player.fov_radius <= TORCH_RADIUS_IN_DARK_AREA)
    /\ [][LET after == Obj(objects', PLAYER)
          IN  IF last'.op = "player_move_or_attack"
              THEN after.fov_radius
                     = IF after.x \in Xs /\ after.y \in Ys
                          /\ <<after.x, after.y>> \in Lit(map)
                       THEN TORCH_RADIUS_IN_LIT_AREA
                       ELSE Min(Player.fov_radius + 1, TORCH_RADIUS_IN_DARK_AREA)
              ELSE after.fov_radius = Player.fov_radius]_vars

(* C30 witness: a turn in the dark with the radius at the cap, on a level
   with a torch *)
C30_Witness ==
    /\ last.op = "player_move_or_attack"
    /\ pos(Player) \notin Lit(map)
    /\ Lit(map) # {}
    /\ Player.fov_radius = TORCH_RADIUS_IN_DARK_AREA
    /\ fov = compute_fov(previous_player_position[1],
                         previous_player_position[2],
                         TORCH_RADIUS_IN_DARK_AREA)

-----------------------------------------------------------------------------
(* Properties of the Basic AI (Spec).                                     *)

(* the step is the turn of a monster whose AI is Basic *)
BasicTurnOf(i) ==
    /\ last'.op = "ai_take_turn" /\ last'.who = i
    /\ Obj(objects, i).ai = Some(Basic)

Abs(n) == IF n < 0 THEN -n ELSE n

(* C24: on its turn a Basic monster whose tile is not in the player's FOV
   does not move and does not attack; one in the FOV at distance >= 2
   moves by at most one tile in x and in y and does not attack; one at
   distance < 2 does not move and attacks only if the hp of the player is
   above 0; its AI is Basic after the turn *)
C24_BasicAiActsOnSight ==
    [][\A i \in Ids(objects) : BasicTurnOf(i) =>
          LET monster == Obj(objects, i)
              after == Obj(objects', i)
              attacked == last'.msgs # <<>>
              untouched == Obj(objects', PLAYER) = Player
          IN  /\ after.ai = Some(Basic)
              /\ pos(monster) \notin fov =>
                    (pos(after) = pos(monster) /\ ~attacked /\ untouched)
              /\ (pos(monster) \in fov /\ distance_to2(monster, Player) >= 4) =>
                    /\ Abs(after.x - monster.x) <= 1
                    /\ Abs(after.y - monster.y) <= 1
                    /\ ~attacked /\ untouched
              /\ (pos(monster) \in fov /\ distance_to2(monster, Player) < 4) =>
                    /\ pos(after) = pos(monster)
                    /\ attacked => Hp(Player) > 0
                    /\ Hp(Player) <= 0 => untouched]_vars

(* C24 witness: a Basic monster that is alive and two or more tiles from
   the player took its turn outside the FOV the player has *)
C24_Witness ==
    /\ last.op = "ai_take_turn"
    /\ Obj(objects, last.who).ai = Some(Basic)
    /\ Obj(objects, last.who).alive
    /\ fov # {}
    /\ pos(Obj(objects, last.who)) \notin fov
    /\ distance_to2(Obj(objects, last.who), Player) >= 4
    /\ Player.alive

-----------------------------------------------------------------------------
(* Properties of the fireball (SpecInv).                                  *)

(* the objects with a Fighter within FIREBALL_RADIUS of the tile t *)
InBlast(t) ==
    {i \in Ids(objects) :
        /\ is_some(Obj(objects, i).fighter)
        /\ Dist2(Obj(objects, i).x, Obj(objects, i).y, t[1], t[2])
             <= FIREBALL_RADIUS * FIREBALL_RADIUS}

(* the sum of the XP rewards of the objects of S *)
RECURSIVE RewardSum(_)
RewardSum(S) ==
    IF S = {} THEN 0
    ELSE LET i == CHOOSE j \in S : TRUE
         IN  Xp(Obj(objects, i)) + RewardSum(S \ {i})

(* C25: a fireball that was cast takes FIREBALL_DAMAGE hit points from
   every object with a Fighter within FIREBALL_RADIUS of the target tile,
   the player included, and kills those it leaves at 0 or below; it touches
   no other object; the xp of the player grows by the sum of the rewards
   of the objects other than the player it killed *)
C25_FireballBurnsAllPaysForOthers ==
    [][(last'.op = "Fireball" /\ last'.result = "UsedUp") =>
         LET t == unwrap(last'.target)
             killed == {i \in InBlast(t) : Hp(Obj(objects, i)) <= FIREBALL_DAMAGE}
         IN  /\ Len(objects') = Len(objects)
             /\ \A i \in InBlast(t) :
                   /\ is_some(Obj(objects', i).fighter) =>
                        Hp(Obj(objects', i)) = Hp(Obj(objects, i)) - FIREBALL_DAMAGE
                   /\ i \in killed <=> (Obj(objects, i).alive
                                          /\ ~Obj(objects', i).alive)
             /\ \A i \in Ids(objects) \ (InBlast(t) \cup {PLAYER}) :
                   Obj(objects', i) = Obj(objects, i)
             /\ Xp(Obj(objects', PLAYER))
                  = Xp(Player) + RewardSum(killed \ {PLAYER})]_vars

(* C25 witness: one fireball killed the player and the orc next to the
   target tile; the player holds the reward of the orc and no more *)
C25_Witness ==
    /\ last.op = "Fireball" /\ last.result = "UsedUp"
    /\ ~Player.alive /\ Hp(Player) <= 0
    /\ pos(Player) # unwrap(last.target)
    /\ Obj(objects, 1).deaths = 1
    /\ \E k \in 1 .. Len(inventory) : inventory[k].item = Some("Lightning")
    /\ Xp(Player) = 35

-----------------------------------------------------------------------------
(* Properties of the population of a room (SpecPop).                      *)

(* the kinds of the objects place_objects pushed: the name of a monster,
   the Item of an item *)
KindsPlaced ==
    {IF is_some(Obj(objects, i).item) THEN unwrap(Obj(objects, i).item)
     ELSE Obj(objects, i).name[1] : i \in Ids(objects) \ {PLAYER}}

(* C26: at dungeon level L place_objects pushes a troll only if L >= 3,
   a confuse scroll only if L >= 2, a lightning scroll or a sword only if
   L >= 4, a fireball scroll only if L >= 6 and a shield only if L >= 8;
   the orc and the healing potion have a positive weight at every level *)
C26_KindsFollowDepth ==
    /\ "troll" \in KindsPlaced => dungeon_level >= 3
    /\ "Confuse" \in KindsPlaced => dungeon_level >= 2
    /\ "Lightning" \in KindsPlaced => dungeon_level >= 4
    /\ "Sword" \in KindsPlaced => dungeon_level >= 4
    /\ "Fireball" \in KindsPlaced => dungeon_level >= 6
    /\ "Shield" \in KindsPlaced => dungeon_level >= 8
    /\ KindsPlaced \subseteq {"orc", "troll", "Heal", "Confuse", "Lightning",
                              "Sword", "Fireball", "Shield", "torch"}
    /\ \E c \in monster_chances(dungeon_level) : c.item = "orc" /\ c.weight > 0
    /\ \E c \in item_chances(dungeon_level) : c.item = "Heal" /\ c.weight > 0

(* C26 witness: at level 8 a room holds a troll and a shield with its
   equipment *)
C26_Witness ==
    /\ pc = "placed"
    /\ dungeon_level = 8
    /\ "troll" \in KindsPlaced
    /\ \E i \in Ids(objects) :
          Obj(objects, i).item = Some("Shield") /\ is_some(Obj(objects, i).equipment)

-----------------------------------------------------------------------------
(* Properties of a generated level (SpecMap).                             *)

(* the center of a rectangle, halves rounded down *)
Middle(r) == <<(r.x1 + r.x2) \div 2, (r.y1 + r.y2) \div 2>>

(* C27: the first pass of the loop of make_map accepts its room; in a
   finished level the player stands at the center of the first accepted
   room, there is exactly one stairs object, it is at the center of the
   last accepted room, and neither tile is blocked *)
C27_PlayerAndStairsPlaced ==
    /\ (pc = "rooms" /\ attempt >= 1) => Len(rooms) >= 1
    /\ pc = "map_done" =>
          /\ Len(rooms) >= 1
          /\ pos(Player) = Middle(rooms[1])
          /\ ~map[Player.x][Player.y].blocked
          /\ Cardinality(Stairs) = 1
          /\ \A i \in Stairs :
                /\ pos(Obj(objects, i)) = Middle(rooms[Len(rooms)])
                /\ ~map[Obj(objects, i).x][Obj(objects, i).y].blocked

(* C27 witness: a finished level of two rooms that replaced a level
   with stairs of its own, the player and the stairs apart *)
C27_Witness ==
    /\ pc = "map_done" /\ Len(rooms) = 2
    /\ Player.level = 2
    /\ \A i \in Stairs : pos(Obj(objects, i)) # pos(Player)

(* the player but for the position *)
Unplaced(o) == [o EXCEPT !.x = 0, !.y = 0]

(* C28: make_map leaves the player at index 0 with the Fighter, the xp
   and the level they had, only the position changes, and never touches
   the inventory; once it has started no object of the level before is in
   the list *)
C28_OnlyPlayerAndInventorySurvive ==
    /\ [](pc # "make_map" =>
             \A i \in Ids(objects) \ {PLAYER} : Obj(objects, i).uid = 0)
    /\ [][/\ Unplaced(Obj(objects', PLAYER)) = Unplaced(Player)
          /\ inventory' = inventory
          /\ pc = "make_map" => objects' = <<Player>>]_vars

(* C28 witness: the level is finished, the player has the 17 hit points,
   the 35 xp and the level 2 they came with and stands in the new first
   room, the scroll is in the inventory, and new monsters or items were
   placed *)
C28_Witness ==
    /\ pc = "map_done"
    /\ Hp(Player) = 17 /\ Xp(Player) = 35 /\ Player.level = 2
    /\ Len(inventory) = 1 /\ inventory[1].uid = 5
    /\ pos(Player) # <<2, 1>>
    /\ Len(objects) >= 3

-----------------------------------------------------------------------------
(* Properties of closest_monster (SpecInv).                               *)

(* the objects other than the player with a Fighter and an Ai, in the FOV
   of the player and at a distance of at most max_range *)
EnemiesWithin(max_range) ==
    {i \in Ids(objects) \ {PLAYER} :
        /\ is_some(Obj(objects, i).fighter)
        /\ is_some(Obj(objects, i).ai)
        /\ pos(Obj(objects, i)) \in fov
        /\ distance_to2(Player, Obj(objects, i)) <= max_range * max_range}

(* the objects other than the player the step took hit points from *)
Struck ==
    {i \in Ids(objects) \ {PLAYER} :
        Obj(objects', i).fighter # Obj(objects, i).fighter}

(* C29, as claimed: the lightning scroll, which strikes the object
   closest_monster(LIGHTNING_RANGE) returns, strikes an enemy in the FOV at
   a distance of at most LIGHTNING_RANGE that no other such enemy is closer
   than, and is cancelled when there is no such enemy *)
C29_ClosestWithinRange ==
    [][last'.op = "Lightning" =>
         IF EnemiesWithin(LIGHTNING_RANGE) = {}
         THEN last'.result = "Cancelled" /\ Struck = {}
         ELSE /\ last'.result = "UsedUp"
              /\ Struck # {}
              /\ Struck \subseteq EnemiesWithin(LIGHTNING_RANGE)
              /\ \A i \in Struck : \A j \in EnemiesWithin(LIGHTNING_RANGE) :
                    distance_to2(Player, Obj(objects, i))
                      <= distance_to2(Player, Obj(objects, j))]_vars

-----------------------------------------------------------------------------
(* Properties of the places of the blocking objects (SpecMap, Spec).      *)

(* the objects that block *)
Blockers == {i \in Ids(objects) : Obj(objects, i).blocks}

(* no two blocking objects on one tile, no blocking object on a blocked
   tile or off the map *)
BlockersApart ==
    /\ \A i, j \in Blockers :
          i # j => pos(Obj(objects, i)) # pos(Obj(objects, j))
    /\ \A i \in Blockers :
          /\ Obj(objects, i).x \in 0 .. (MAP_WIDTH - 1)
          /\ Obj(objects, i).y \in 0 .. (MAP_HEIGHT - 1)
          /\ ~map[Obj(objects, i).x][Obj(objects, i).y].blocked

(* C31, as claimed: once the level is generated, the player being put on
   the center of the first room after that room was populated, no two
   blocking objects stand on one tile and no blocking object stands on a
   blocked tile; the moves of the player and of the monsters keep it so *)
C31_BlockersNeverShareATile ==
    pc \notin {"make_map", "rooms"} => BlockersApart

-----------------------------------------------------------------------------
(* Properties of the equipment slots (SpecInv).                           *)

(* the inventory items equipped in the slot *)
EquippedIn(slot) ==
    {k \in 1 .. Len(inventory) :
        IsEquipped(inventory[k]) /\ unwrap(inventory[k].equipment).slot = slot}

(* C32, as claimed: whatever the pick-ups, the toggles and the drops were,
   at most one item of the inventory is equipped in each equipment slot *)
C32_OneEquippedPerSlot ==
    \A slot \in {"LeftHand", "RightHand", "Head"} :
        Cardinality(EquippedIn(slot)) <= 1

-----------------------------------------------------------------------------
(* Properties of mut_two (SpecStep, Spec).                                *)

(* C33, as claimed: the assertion of mut_two on its two indexes never
   fails: whatever the displacement of the player, the zero displacement
   included, player_move_or_attack does not take the player as the target
   of its attack, and no AI turn is run for the index of the player *)
C33_MutTwoNeverAliases ==
    /\ pc # "panic"
    /\ ~(last.op = "ai_take_turn" /\ last.who = PLAYER)

-----------------------------------------------------------------------------
(* Properties of the edge of the map (SpecMap, Spec).                     *)

(* the tiles of the outer edge of the map *)
EdgeTiles ==
    {t \in Xs \X Ys :
        t[1] \in {0, MAP_WIDTH - 1} \/ t[2] \in {0, MAP_HEIGHT - 1}}

(* C34: once the level is generated every tile of the outer edge of the
   map is blocked and every object stands strictly inside the edge, so the
   position of an object plus a step with components in -1 .. 1, which is
   what is_blocked reads during movement, is a tile of the map *)
C34_EdgeIsBlocked ==
    pc \notin {"make_map", "rooms"} =>
        /\ \A t \in EdgeTiles : map[t[1]][t[2]].blocked
        /\ \A i \in Ids(objects) : \A d \in Displacements :
              /\ pos(Obj(objects, i)) \in (Xs \X Ys) \ EdgeTiles
              /\ <<Obj(objects, i).x + d[1], Obj(objects, i).y + d[2]>>
                    \in Xs \X Ys

(* a level of two rooms, one against the left edge of the map and one
   against the right edge, joined by a tunnel *)
C34_Witness ==
    /\ pc = "map_done"
    /\ Len(rooms) = 2
    /\ \E k \in 1 .. 2 : rooms[k].x1 = 0 /\ rooms[k].y1 = 0
    /\ \E k \in 1 .. 2 : rooms[k].x2 = MAP_WIDTH - 1
                         /\ rooms[k].y2 = MAP_HEIGHT - 1

-----------------------------------------------------------------------------
(* Properties of the end of confusion (SpecLive).                         *)

(* C35: if from some step on no confuse scroll is cast, a monster that
   takes AI turns again and again has the AI Basic from some turn on,
   whatever the number of casts it received and however the casts fell
   between its turns *)
C35_ConfusionWearsOff ==
    \A i \in 1 .. 1 :
        (/\ <>[][last'.op # "Confuse"]_vars
         /\ []<><<AiTurn /\ AiTurnOf(i)>>_vars)
        => <>[](Obj(objects, i).ai = Some(Basic))

(* a monster on which a confuse scroll was cast while it was confused has
   the AI Basic again after one of its turns, both scrolls being spent *)
C35_Witness ==
    \E i \in 1 .. 1 :
        /\ is_some(Obj(objects, i).wrapped)
        /\ IsConfused(unwrap(Obj(objects, i).wrapped))
        /\ Obj(objects, i).ai = Some(Basic)
        /\ last.op = "ai_take_turn" /\ last.who = i
        /\ inventory = <<>>

-----------------------------------------------------------------------------
(* Properties of move_towards (SpecStep).                                 *)

(* the Chebyshev distance of two tiles *)
Cheb(a, b) == Max(Abs(a[1] - b[1]), Abs(a[2] - b[2]))

(* the position of objects[i] after the step less the one before it *)
StepOf(i) ==
    <<Obj(objects', i).x - Obj(objects, i).x,
      Obj(objects', i).y - Obj(objects, i).y>>

(* the tiles next to p in the direction of t: one step or none along each
   axis, never away from t, and not p itself *)
TowardsTiles(p, t) ==
    {<<p[1] + sx, p[2] + sy>> :
        <<sx, sy>> \in ({0, Sign(t[1] - p[1])} \X {0, Sign(t[2] - p[2])})
                          \ {<<0, 0>>}}

(* C36: move_towards to a target at distance >= 2 either leaves the object
   where it is, and then a tile towards the target is blocked, or moves it
   by a step that is not (0, 0), has components in -1 .. 1 that are 0 or of
   the sign of the displacement, and does not increase the Chebyshev
   distance to the target; the destination it moves to is not blocked, and
   no other object changes *)
C36_StepTowardsTarget ==
    [][(last'.op = "move_towards"
        /\ Dist2(Obj(objects, last'.who).x, Obj(objects, last'.who).y,
                 unwrap(last'.target)[1], unwrap(last'.target)[2]) >= 4) =>
         LET i == last'.who
             t == unwrap(last'.target)
             p == pos(Obj(objects, i))
             q == pos(Obj(objects', i))
         IN  /\ \A j \in Ids(objects) \ {i} : Obj(objects', j) = Obj(objects, j)
             /\ Obj(objects', i) = set_pos(Obj(objects, i), q[1], q[2])
             /\ IF last'.result = "stayed"
                THEN /\ q = p
                     /\ \E n \in TowardsTiles(p, t) :
                           is_blocked(n[1], n[2], map, objects)
                ELSE /\ q \in TowardsTiles(p, t)
                     /\ StepOf(i) \in Displacements \ {<<0, 0>>}
                     /\ ~is_blocked(q[1], q[2], map, objects)
                     /\ Cheb(q, t) <= Cheb(p, t)]_vars

(* the orc, two tiles or more from its target, has stayed where it was,
   the player standing on a tile towards the target *)
C36_Witness ==
    /\ last.op = "move_towards" /\ last.result = "stayed"
    /\ Dist2(Obj(objects, last.who).x, Obj(objects, last.who).y,
             unwrap(last.target)[1], unwrap(last.target)[2]) >= 4
    /\ pos(Player) \in TowardsTiles(pos(Obj(objects, last.who)),
                                     unwrap(last.target))
    /\ Player.blocks

-----------------------------------------------------------------------------
(* Properties of player_move_or_attack (SpecStep).                        *)

(* C37, as claimed: a step of player_move_or_attack by d either attacks or
   moves. With an object with a Fighter on the destination the first of
   them is attacked, the player stays where it is and nothing but the
   target changes; otherwise nothing is attacked, no object but the player
   changes, no hit points change, and the player is on the destination if
   it was not blocked and where it was if it was *)
C37_AttackOrMove ==
    [][last'.op = "player_move_or_attack" =>
         \A d \in Displacements :
            LET r == player_move_or_attack(d[1], d[2], map, objects)
                dest == <<Player.x + d[1], Player.y + d[2]>>
                on_dest == {i \in Ids(objects) :
                               /\ is_some(Obj(objects, i).fighter)
                               /\ pos(Obj(objects, i)) = dest}
            IN  (/\ objects' = r.objects
                 /\ last'.msgs = r.msgs
                 /\ r.panic <=> last'.result = "panic") =>
                  IF on_dest # {}
                  THEN /\ last'.msgs # <<>>
                       /\ Obj(objects', PLAYER) = Obj(objects, PLAYER)
                       /\ \A i \in Ids(objects) \ {First(on_dest)} :
                             Obj(objects', i) = Obj(objects, i)
                  ELSE /\ last'.msgs = <<>>
                       /\ \A i \in Ids(objects) \ {PLAYER} :
                             Obj(objects', i) = Obj(objects, i)
                       /\ Obj(objects', PLAYER).fighter = Player.fighter
                       /\ pos(Obj(objects', PLAYER)) =
                             IF is_blocked(dest[1], dest[2], map, objects)
                             THEN pos(Player) ELSE dest]_vars

====
